---- MODULE Spec2Model ----
(***************************************************************************)
(* A model of the Telegram Web App bridge: the TelegramWebApp facade, the  *)
(* Popup state machine, the popup button validator, the QR popup and the   *)
(* pending invoice / clipboard registries, driven by application calls and *)
(* by host events.                                                         *)
(*                                                                         *)
(* JavaScript values are records [ty, pre, core, post, tag].  A string is  *)
(* abstracted by its shape: `pre` leading whitespace characters, `core`    *)
(* characters from the first to the last non-whitespace one, `post`        *)
(* trailing whitespace characters, and `tag` naming the content of the     *)
(* core.  Two strings of the same shape and tag are the same string.       *)
(***************************************************************************)
EXTENDS Integers, Sequences, FiniteSets, TLC

VARIABLES
    version,    \* Version.value, as the list of its dot-separated units
    app,        \* TelegramWebApp: #lastWindowHeight, #isClosingConfirmationEnabled
    window,     \* window: innerHeight, and whether #onWindowResize listens to resize
    viewport,   \* Viewport: height, stableHeight
    popup,      \* Popup: #isOpened and #data (params, callback)
    qrPopup,    \* QrPopup: isOpened, params.text, callback
    clipboard,  \* WebAppClipboard: req_id -> callback
    invoices,   \* Invoices: slug -> {url, callback}
    mainButton, \* WebAppMainButton: isActive
    backButton, \* WebAppBackButton: whether it has emitted CREATED
    handlers,   \* WebView: event name -> registered handlers, in insertion order
    nextTok,    \* identity given to the next callback the application passes
    invoked,    \* per callback identity, how often it has run (capped at 2)
    op,         \* the call or host event handled last, with its inputs and outcome
    out         \* what that handler did, in order: posts, callbacks, emitted events

vars == <<version, app, window, viewport, popup, qrPopup, clipboard, invoices, mainButton, backButton, handlers,
          nextTok, invoked, op, out>>

-----------------------------------------------------------------------------
(* Bounds *)

\* callbacks the application may have stored over one run
MaxCalls == 2

\* number of values generateId can return
IdSpace == 2

\* whitespace characters before and after the text of a string argument
MaxPad == 1

\* units of a version string, and the largest integer a unit holds
MaxUnits == 2
MaxNum == 1

\* functions the application subscribes to button clicks with, and how many
\* of them change the subscriptions during one dispatch
MaxHandlers == 2
MaxActing == 1

\* the largest window height
MaxHeight == 2

-----------------------------------------------------------------------------
(* Program constants *)

MAX_TITLE_LENGTH == 64
MAX_MESSAGE_LENGTH == 256
MIN_BUTTONS == 1
MAX_BUTTONS == 3
MAX_ID_LENGTH == 64
MAX_TEXT_LENGTH == 64
MAX_INLINE_QUERY_LENGTH == 256

-----------------------------------------------------------------------------
(* JavaScript values *)

Undef == [ty |-> "undef", pre |-> 0, core |-> 0, post |-> 0, tag |-> ""]
Null == [ty |-> "null", pre |-> 0, core |-> 0, post |-> 0, tag |-> ""]
Str(pre, core, post, tag) ==
    [ty |-> "str", pre |-> pre, core |-> core, post |-> post, tag |-> tag]
Bool(b) ==
    [ty |-> "bool", pre |-> 0, core |-> 0, post |-> 0,
     tag |-> IF b THEN "true" ELSE "false"]

EmptyStr == Str(0, 0, 0, "")

\* value.length of a string
Length(v) == v.pre + v.core + v.post

\* String.prototype.trim
Trim(v) == Str(0, v.core, 0, v.tag)

\* ToBoolean
Truthy(v) ==
    CASE v.ty = "str" -> Length(v) > 0
      [] v.ty = "bool" -> v.tag = "true"
      [] OTHER -> FALSE

\* v ?? d
Coalesce(v, d) == IF v.ty \in {"undef", "null"} THEN d ELSE v

\* value.toString() of a string or a boolean
toStr(v) ==
    CASE v.ty = "str" -> v
      [] v.ty = "bool" -> IF v.tag = "true" THEN Str(0, 4, 0, "true") ELSE Str(0, 5, 0, "false")
      [] OTHER -> EmptyStr

-----------------------------------------------------------------------------
(* Version gate *)

\* A version string is the list of the units that trimming it and splitting
\* it at the dots gives (never empty: ''.split('.') is ['']). A unit has
\* `lead`, the decimal integer parseInt reads at its start (-1 if it starts
\* with none: parseInt gives NaN), and `rest`, whether other characters follow
\* that integer ("4" is [4, FALSE], "4a" is [4, TRUE], "" is [-1, FALSE],
\* "beta" is [-1, TRUE]).
UnitStr(lead, rest) == [lead |-> lead, rest |-> rest]
Num(n) == UnitStr(n, FALSE)

\* parseInt(unit) || 0: NaN and 0 both give 0
parseIntOrZero(unit) == IF unit.lead < 0 THEN 0 ELSE unit.lead

\* parseInt(vUnits[i]) || 0, vUnits[i] being undefined past the end
Unit(units, i) == IF i <= Len(units) THEN parseIntOrZero(units[i]) ELSE 0

RECURSIVE CompareFrom(_, _, _)
CompareFrom(v1Units, v2Units, i) ==
    IF i > (IF Len(v1Units) > Len(v2Units) THEN Len(v1Units) ELSE Len(v2Units))
    THEN 0
    ELSE LET p1 == Unit(v1Units, i)
             p2 == Unit(v2Units, i)
         IN  IF p1 = p2 THEN CompareFrom(v1Units, v2Units, i + 1)
             ELSE IF p1 > p2 THEN 1 ELSE -1

versionCompare(v1Units, v2Units) == CompareFrom(v1Units, v2Units, 1)

isSuitableTo(current, target) == versionCompare(current, target) >= 0

V6_0 == <<Num(6), Num(0)>>
V6_1 == <<Num(6), Num(1)>>
V6_2 == <<Num(6), Num(2)>>
V6_4 == <<Num(6), Num(4)>>
V6_7 == <<Num(6), Num(7)>>

-----------------------------------------------------------------------------
(* Callbacks *)

\* A callback the application passed: `tok` is its identity, `kind` says how
\* the facade wrapped it (showPopup stores it as it is, showConfirm wraps it).
\* `user` says whether the application's own function is present.
NoCallback == [tok |-> 0, kind |-> "none", user |-> FALSE]
Callback(tok, kind, user) == [tok |-> tok, kind |-> kind, user |-> user]
HasCallback(cb) == cb.tok # 0

-----------------------------------------------------------------------------
(* WebAppPopupButton *)

TYPE_DEFAULT == Str(0, 7, 0, "default")
TYPE_OK == Str(0, 2, 0, "ok")
TYPE_CLOSE == Str(0, 5, 0, "close")
TYPE_CANCEL == Str(0, 6, 0, "cancel")
TYPE_DESTRUCTIVE == Str(0, 11, 0, "destructive")

VALID_BUTTON_TYPES == {TYPE_DEFAULT, TYPE_OK, TYPE_CLOSE, TYPE_CANCEL, TYPE_DESTRUCTIVE}
TYPES_WITH_REQUIRED_TEXT == {TYPE_DEFAULT, TYPE_DESTRUCTIVE}

EmptyButton == [id |-> Undef, type |-> Undef, text |-> Undef]

Ok(data) == [err |-> "", data |-> data]
Throw(err, data) == [err |-> err, data |-> data]

setID(button, id) ==
    LET stringifiedID == toStr(Coalesce(id, EmptyStr))
    IN  IF Length(stringifiedID) > MAX_ID_LENGTH
        THEN Throw("ParamInvalid:id", button)
        ELSE Ok([button EXCEPT !.id = stringifiedID])

setType(button, type) ==
    IF type \notin VALID_BUTTON_TYPES
    THEN Throw("ParamInvalid:type", button)
    ELSE Ok([button EXCEPT !.type = type])

\* #setText that stores the text whatever the type
setTextForAnyType(button, text) ==
    IF ~Truthy(button.type)
    THEN Throw("ParamInvalid:text", button)
    ELSE LET normalizedText == Trim(toStr(Coalesce(text, EmptyStr)))
         IN  IF button.type \notin TYPES_WITH_REQUIRED_TEXT
             THEN Ok([button EXCEPT !.text = normalizedText])
             ELSE IF ~Truthy(normalizedText)
             THEN Throw("ParamInvalid:text", button)
             ELSE IF Length(normalizedText) > MAX_TEXT_LENGTH
             THEN Throw("ParamInvalid:text", button)
             ELSE Ok([button EXCEPT !.text = normalizedText])

setText(button, text) ==
    IF ~Truthy(button.type)
    THEN Throw("ParamInvalid:text", button)
    ELSE IF button.type \notin TYPES_WITH_REQUIRED_TEXT
    THEN Ok(button)
    ELSE LET normalizedText == Trim(toStr(Coalesce(text, EmptyStr)))
         IN  IF ~Truthy(normalizedText)
             THEN Throw("ParamInvalid:text", button)
             ELSE IF Length(normalizedText) > MAX_TEXT_LENGTH
             THEN Throw("ParamInvalid:text", button)
             ELSE Ok([button EXCEPT !.text = normalizedText])

\* the chained setters of the constructor: a setter runs only if none before
\* it threw; `r` is what the setters before it left
thenSetType(r, type) == IF r.err = "" THEN setType(r.data, type) ELSE r
thenSetText(r, text) == IF r.err = "" THEN setText(r.data, text) ELSE r

\* the constructor with the type set before the id
WebAppPopupButtonTypeFirst(config) ==
    LET typed == setType(EmptyButton, config.type)
    IN  thenSetText(IF typed.err = "" THEN setID(typed.data, config.id) ELSE typed,
                    config.text)

\* new WebAppPopupButton(config): #setID(id).#setType(type).#setText(text)
WebAppPopupButton(config) ==
    thenSetText(thenSetType(setID(EmptyButton, config.id), config.type), config.text)

-----------------------------------------------------------------------------
(* Popup *)

NoButtons == [ty |-> "undef", list |-> <<>>]
Buttons(list) == [ty |-> "array", list |-> list]

\* createInitialState()
createInitialState ==
    [params |-> [title |-> Undef, message |-> Undef, buttons |-> NoButtons],
     callback |-> NoCallback]

ClosedPopup == [isOpened |-> FALSE, data |-> createInitialState]

setCallback(data, callback) ==
    IF HasCallback(callback) THEN [data EXCEPT !.callback = callback] ELSE data

setTitle(data, title) ==
    IF ~Truthy(title)
    THEN Ok(data)
    ELSE LET trimmedTitle == Trim(title)
         IN  IF Length(trimmedTitle) = 0
             THEN Ok(data)
             ELSE IF Length(title) > MAX_TITLE_LENGTH
             THEN Throw("ParamInvalid:title", data)
             ELSE Ok([data EXCEPT !.params.title = trimmedTitle])

\* #setMessage that bounds the length of the message as given, not trimmed
setMessageUntrimmedLength(data, message) ==
    LET trimmedMessage == Trim(Coalesce(message, EmptyStr))
    IN  IF ~Truthy(trimmedMessage)
        THEN Throw("ParamInvalid:message", data)
        ELSE IF Length(Coalesce(message, EmptyStr)) > MAX_MESSAGE_LENGTH
        THEN Throw("ParamInvalid:message", data)
        ELSE Ok([data EXCEPT !.params.message = trimmedMessage])

setMessage(data, message) ==
    LET trimmedMessage == Trim(Coalesce(message, EmptyStr))
    IN  IF ~Truthy(trimmedMessage)
        THEN Throw("ParamInvalid:message", data)
        ELSE IF Length(trimmedMessage) > MAX_MESSAGE_LENGTH
        THEN Throw("ParamInvalid:message", data)
        ELSE Ok([data EXCEPT !.params.message = trimmedMessage])

\* buttons.map((button) => new WebAppPopupButton(button)): every button built
mapButtons(list) == [i \in 1..Len(list) |-> WebAppPopupButton(list[i])]

\* the first button that fails validation aborts the map (0 if none fails)
FirstBad(built) ==
    IF \E i \in 1..Len(built) : built[i].err # ""
    THEN CHOOSE i \in 1..Len(built) :
            /\ built[i].err # ""
            /\ \A j \in 1..(i - 1) : built[j].err = ""
    ELSE 0

\* this.#data.params.buttons = popupButtons, unless the map threw
storeButtons(data, built) ==
    IF FirstBad(built) # 0
    THEN Throw(built[FirstBad(built)].err, data)
    ELSE Ok([data EXCEPT !.params.buttons =
                Buttons([i \in 1..Len(built) |-> built[i].data])])

\* #setButtons without the upper bound on the number of buttons
setButtonsNoMaximum(data, buttons, genId) ==
    IF buttons.ty \in {"undef", "null"}
    THEN Ok([data EXCEPT !.params.buttons =
                Buttons(<<WebAppPopupButton(
                    [id |-> genId, type |-> TYPE_CLOSE, text |-> Undef]).data>>)])
    ELSE IF buttons.ty # "array"
    THEN Throw("ParamInvalid:buttons", data)
    ELSE IF Len(buttons.list) < MIN_BUTTONS
    THEN Throw("ParamInvalid:buttons", data)
    ELSE storeButtons(data, mapButtons(buttons.list))

\* `genId` is the value generateId(5) returns if it is called
setButtons(data, buttons, genId) ==
    IF buttons.ty \in {"undef", "null"}
    THEN Ok([data EXCEPT !.params.buttons =
                Buttons(<<WebAppPopupButton(
                    [id |-> genId, type |-> TYPE_CLOSE, text |-> Undef]).data>>)])
    ELSE IF buttons.ty # "array"
    THEN Throw("ParamInvalid:buttons", data)
    ELSE IF Len(buttons.list) < MIN_BUTTONS
    THEN Throw("ParamInvalid:buttons", data)
    ELSE IF Len(buttons.list) > MAX_BUTTONS
    THEN Throw("ParamInvalid:buttons", data)
    ELSE storeButtons(data, mapButtons(buttons.list))

\* the chained setters of Popup.open: a setter runs only if none before it
\* threw; `r` is what the setters before it left
thenSetMessage(r, message) == IF r.err = "" THEN setMessage(r.data, message) ELSE r
thenSetButtons(r, buttons, genId) ==
    IF r.err = "" THEN setButtons(r.data, buttons, genId) ELSE r

\* the end of Popup.open: #setCallback(callback) and #isOpened = true if no
\* setter threw; a setter that throws leaves what the setters before it stored
finishOpen(p, r, callback) ==
    IF r.err = ""
    THEN Ok([isOpened |-> TRUE, data |-> setCallback(r.data, callback)])
    ELSE Throw(r.err, [p EXCEPT !.data = r.data])

\* Popup.open without its isOpened guard
PopupOpenUnguarded(p, params, callback, genId) ==
    finishOpen(p,
               thenSetButtons(
                   thenSetMessage(setTitle(p.data, params.title), params.message),
                   params.buttons, genId),
               callback)

\* Popup.open({params: {title, message, buttons}, callback}); a setter that
\* throws leaves what the setters before it stored
PopupOpen(p, params, callback, genId) ==
    IF p.isOpened
    THEN Ok(p)
    ELSE finishOpen(p,
                    thenSetButtons(
                        thenSetMessage(setTitle(p.data, params.title), params.message),
                        params.buttons, genId),
                    callback)

\* Popup.close that resets the flag and keeps the data
PopupCloseKeepsData(p) == [p EXCEPT !.isOpened = FALSE]

\* Popup.close()
PopupClose(p) == [isOpened |-> FALSE, data |-> createInitialState]

\* get params(): Object.keys(this.#data.params).length > 0 ? params : null
hasData(p) ==
    \/ p.data.params.title.ty # "undef"
    \/ p.data.params.message.ty # "undef"
    \/ p.data.params.buttons.ty # "undef"

\* `null` says that the accessor returns null
PopupParams(p) == [null |-> ~hasData(p), value |-> p.data.params]

-----------------------------------------------------------------------------
(* QrPopup *)

ClosedQrPopup == [isOpened |-> FALSE, text |-> Undef, callback |-> NoCallback]

\* QrPopup.open({params, callback}): no-op if already open
QrPopupOpen(q, text, callback) ==
    IF q.isOpened
    THEN q
    ELSE [isOpened |-> TRUE, text |-> text, callback |-> callback]

QrPopupClose(q) == ClosedQrPopup

-----------------------------------------------------------------------------
(* Pending request registries: WebAppClipboard and Invoices *)

EmptyMap == [x \in {} |-> NoCallback]

MapHas(m, key) == key \in DOMAIN m
MapSet(m, key, value) ==
    [x \in DOMAIN m \cup {key} |-> IF x = key THEN value ELSE m[x]]
MapRemove(m, key) == [x \in DOMAIN m \ {key} |-> m[x]]

\* an invoice url, by what new URL(url) and the slug pattern make of it
Url(valid, slug) == [valid |-> valid, slug |-> slug]

\* Invoices.create(url): the slug of a valid invoice url with no pending entry
InvoicesCreate(m, url) ==
    IF ~url.valid
    THEN Throw("InvoiceUrlInvalid", url.slug)
    ELSE IF MapHas(m, url.slug)
    THEN Throw("InvoiceOpened", url.slug)
    ELSE Ok(url.slug)

-----------------------------------------------------------------------------
(* What a handler does, in order *)

NoParams == createInitialState.params

\* this.#webView.postEvent(name, undefined, data)
Post(name, arg, params) ==
    [k |-> "post", name |-> name, arg |-> arg, tok |-> 0, params |-> params,
     live |-> FALSE]
\* a stored callback is called with `arg`; `live` says whether, at that moment,
\* the popup that stored it is still open or the request still registered
Call(cb, arg, live) ==
    [k |-> "cb", name |-> cb.kind, arg |-> arg, tok |-> cb.tok, params |-> NoParams,
     live |-> live]
\* the application's function wrapped by a stored callback is called with `arg`
UserCall(cb, arg) ==
    [k |-> "usercb", name |-> cb.kind, arg |-> arg, tok |-> cb.tok, params |-> NoParams,
     live |-> FALSE]
\* this.#receiveWebViewEvent(name, {..: arg})
Emit(name, arg) ==
    [k |-> "emit", name |-> name, arg |-> arg, tok |-> 0, params |-> NoParams,
     live |-> FALSE]

\* the record of a handled call or host event: its name, the error it raised
\* ("" if none), its inputs `arg` and `aux`, and the callback: the one passed
\* to a call, the one a host event found stored
Done(name, err, arg, aux, cb) ==
    [name |-> name, err |-> err, arg |-> arg, aux |-> aux, cb |-> cb]

\* the record of a call that takes popup params: `arg` is the message, `aux`
\* the title
DonePopup(name, err, params, cb) ==
    [name |-> name, err |-> err, arg |-> params.message, aux |-> params.title,
     cb |-> cb, buttons |-> params.buttons]

Result(err, state, log) == [err |-> err, state |-> state, out |-> log]

-----------------------------------------------------------------------------
(* WebView handler registry, MainButton, BackButton *)

\* the events the application subscribes to, as #onWebViewEvent names them
MAIN_BUTTON_CLICKED == "webview:mainButtonClicked"
BACK_BUTTON_CLICKED == "webview:backButtonClicked"

\* the functions the application subscribes with
Handlers == 1..MaxHandlers

\* the closures TelegramWebApp registers for the host's events
onMainButtonPressed == "onMainButtonPressed"
onBackButtonPressed == "onBackButtonPressed"

\* WebView.onEvent(name, handler): registration is by handler identity and
\* keeps insertion order
onEvent(hs, name, handler) ==
    IF \E i \in 1..Len(hs[name]) : hs[name][i] = handler
    THEN hs
    ELSE [hs EXCEPT ![name] = Append(@, handler)]

\* WebView.offEvent(name, handler): no effect if `handler` is not registered
offEvent(hs, name, handler) ==
    [hs EXCEPT ![name] = SelectSeq(@, LAMBDA h : h # handler)]

\* what a subscribed function does when it is called: nothing, or it
\* subscribes or unsubscribes a function for the event being dispatched
NoEffect == [kind |-> "none", handler |-> 0]
Effects ==
    {NoEffect} \cup {[kind |-> k, handler |-> h] : k \in {"on", "off"}, h \in Handlers}

applyEffect(hs, name, effect) ==
    CASE effect.kind = "on" -> onEvent(hs, name, effect.handler)
      [] effect.kind = "off" -> offEvent(hs, name, effect.handler)
      [] OTHER -> hs

\* how the subscribed functions behave during one dispatch: what each does
\* when called, and which of them throw
Behaviour(effects, throws) == [effects |-> effects, throws |-> throws]
\* a subscribed function is called for event `name`
HandlerCall(name, handler) ==
    [k |-> "handler", name |-> name, arg |-> Undef, tok |-> handler,
     params |-> NoParams, live |-> FALSE]

\* the failure of a subscribed function is reported
Report(name, handler) ==
    [k |-> "report", name |-> name, arg |-> Undef, tok |-> handler,
     params |-> NoParams, live |-> FALSE]

\* one handler of a dispatch: func(handler), its failure caught and reported
callOne(r, name, handler, does) ==
    Result("", applyEffect(r.state, name, does.effects[handler]),
           r.out \o <<HandlerCall(name, handler)>>
                 \o (IF handler \in does.throws THEN <<Report(name, handler)>> ELSE <<>>))

\* one handler of a dispatch that lets a failure through: the dispatch ends
\* with the first function that throws
callOneUnisolated(r, name, handler, does) ==
    IF r.err # ""
    THEN r
    ELSE Result(IF handler \in does.throws THEN "HandlerError" ELSE "",
                applyEffect(r.state, name, does.effects[handler]),
                Append(r.out, HandlerCall(name, handler)))

\* the handlers of `list`, a copy of the list registered when the dispatch
\* began, are called in order
RECURSIVE callSnapshot(_, _, _, _)
callSnapshot(r, list, name, does) ==
    IF list = <<>>
    THEN r
    ELSE callSnapshot(callOne(r, name, Head(list), does), Tail(list), name, does)

\* a dispatch that walks the registered list itself, from position `i`
RECURSIVE callLive(_, _, _, _)
callLive(r, i, name, does) ==
    IF i > Len(r.state[name])
    THEN r
    ELSE callLive(callOne(r, name, r.state[name][i], does), i + 1, name, does)

\* a dispatch that does not catch the failure of a handler
RECURSIVE callUnisolated(_, _, _, _)
callUnisolated(r, list, name, does) ==
    IF list = <<>>
    THEN r
    ELSE callUnisolated(callOneUnisolated(r, name, Head(list), does), Tail(list),
                        name, does)

\* WebView.callEventCallbacks(name, cb => cb.apply(..)): every handler
\* registered under `name` at this moment, in insertion order
callEventCallbacks(hs, name, does) ==
    callSnapshot(Result("", hs, <<>>), hs[name], name, does)

\* TelegramWebApp.#receiveWebViewEvent(eventType)
receiveWebViewEventLive(hs, eventType, does) ==
    callLive(Result("", hs, <<>>), 1, "webview:" \o eventType, does)
receiveWebViewEventUnisolated(hs, eventType, does) ==
    callUnisolated(Result("", hs, <<>>), hs["webview:" \o eventType],
                   "webview:" \o eventType, does)
receiveWebViewEvent(hs, eventType, does) ==
    callEventCallbacks(hs, "webview:" \o eventType, does)

\* onMainButtonClick(isActive), of #initMainButton
onMainButtonClickAlways(hs, isActive, does) ==
    receiveWebViewEvent(hs, "mainButtonClicked", does)
onMainButtonClick(hs, isActive, does) ==
    IF isActive
    THEN receiveWebViewEvent(hs, "mainButtonClicked", does)
    ELSE Result("", hs, <<>>)

\* the handler #initMainButton registers for main_button_pressed
forwardMainButton(hs, button, does) == onMainButtonClick(hs, button.isActive, does)

\* the handler the CREATED listener of #initBackButton registers for
\* back_button_pressed
forwardBackButton(hs, does) == receiveWebViewEvent(hs, "backButtonClicked", does)

\* the listener #initBackButton gives the BackButton for CREATED
onBackButtonCreated(hs) == onEvent(hs, "back_button_pressed", onBackButtonPressed)

\* what `s` did, after what `r` did
Then(r, s) == Result(s.err, s.state, r.out \o s.out)

\* WebView.receiveEvent(name): the handlers TelegramWebApp registered for
\* the host event `name` run in insertion order
RECURSIVE callHostHandlers(_, _, _, _)
callHostHandlers(r, list, button, does) ==
    IF list = <<>>
    THEN r
    ELSE callHostHandlers(
            Then(r, IF Head(list) = onMainButtonPressed
                    THEN forwardMainButton(r.state, button, does)
                    ELSE forwardBackButton(r.state, does)),
            Tail(list), button, does)

receiveEvent(hs, name, button, does) ==
    callHostHandlers(Result("", hs, <<>>), hs[name], button, does)

\* the record of a button event from the host, with the behaviour of the
\* subscribed functions during its dispatch
DoneDispatch(name, err, does) ==
    [name |-> name, err |-> err, arg |-> Undef, aux |-> Undef, cb |-> NoCallback,
     does |-> does]

\* the record of a subscription call or of a button event from the host
DoneButton(name, event, handler) ==
    [name |-> name, err |-> "", arg |-> Undef, aux |-> Undef, cb |-> NoCallback,
     event |-> event, handler |-> handler]

\* the fields of TelegramWebApp, the window and the Viewport at construction
InitialApp == [lastWindowHeight |-> 1, isClosingConfirmationEnabled |-> FALSE]
InitialWindow == [innerHeight |-> 1, resize |-> TRUE]
InitialViewport == [height |-> 1, stableHeight |-> 1]

\* the MainButton and the BackButton as the constructor receives them
InitialMainButton == [isActive |-> TRUE]
InitialBackButton == [isCreated |-> FALSE]

\* webView.onEvent(name, ..) has been called
Registered(name) ==
    [k |-> "on", name |-> name, arg |-> Undef, tok |-> 0, params |-> NoParams,
     live |-> FALSE]

\* the registry of a new WebView
EmptyHandlers ==
    [name \in {"main_button_pressed", "back_button_pressed", "theme_changed",
               "viewport_changed", "invoice_closed", "settings_button_pressed",
               "popup_closed", "qr_text_received", "scan_qr_popup_closed",
               "clipboard_text_received", MAIN_BUTTON_CLICKED, BACK_BUTTON_CLICKED} |-> <<>>]

\* the handlers the constructor registers at its end, in its order
HOST_HANDLERS ==
    <<[name |-> "theme_changed", handler |-> "onThemeChanged"],
      [name |-> "viewport_changed", handler |-> "onViewportChanged"],
      [name |-> "invoice_closed", handler |-> "onInvoiceClosed"],
      [name |-> "settings_button_pressed", handler |-> "onSettingsButtonPressed"],
      [name |-> "popup_closed", handler |-> "onPopupClosed"],
      [name |-> "qr_text_received", handler |-> "onQrTextReceived"],
      [name |-> "scan_qr_popup_closed", handler |-> "onScanQrPopupClosed"],
      [name |-> "clipboard_text_received", handler |-> "onClipboardTextReceived"]>>

\* this.#webView.onEvent(name, handler), `r` being the constructor so far
thenOnEvent(r, name, handler) ==
    Result("", onEvent(r.state, name, handler), Append(r.out, Registered(name)))

RECURSIVE thenOnEvents(_, _)
thenOnEvents(r, list) ==
    IF list = <<>>
    THEN r
    ELSE thenOnEvents(thenOnEvent(r, Head(list).name, Head(list).handler), Tail(list))

\* this.#webView.postEvent(name), `r` being the constructor so far
thenPost(r, name) == Result("", r.state, Append(r.out, Post(name, Undef, NoParams)))

\* this.#bgColor.update() and this.#viewport.setHeight() in the constructor:
\* whether the first posts the colour and the second emits viewportChanged
\* is left to BackgroundColor and Viewport
thenUpdate(r, bgColorUpdated, heightChanged) ==
    Result("", r.state,
           r.out \o (IF bgColorUpdated
                     THEN <<Post("web_app_set_background_color", Undef, NoParams)>>
                     ELSE <<>>)
                 \o (IF heightChanged
                     THEN <<Emit("viewportChanged", Bool(TRUE))>>
                     ELSE <<>>))

\* the constructor that posts its two requests before it registers the
\* handlers
constructorRequestsFirst(hs, bgColorUpdated, heightChanged) ==
    thenOnEvents(
        thenPost(thenPost(
            thenUpdate(thenOnEvent(Result("", hs, <<>>),
                                   "main_button_pressed", onMainButtonPressed),
                       bgColorUpdated, heightChanged),
            "web_app_request_theme"), "web_app_request_viewport"),
        HOST_HANDLERS)

\* TelegramWebApp.constructor: what it registers with the WebView and what
\* it posts, in order
constructor(hs, bgColorUpdated, heightChanged) ==
    thenPost(thenPost(
        thenOnEvents(
            thenUpdate(thenOnEvent(Result("", hs, <<>>),
                                   "main_button_pressed", onMainButtonPressed),
                       bgColorUpdated, heightChanged),
            HOST_HANDLERS),
        "web_app_request_theme"), "web_app_request_viewport")

\* the registry once the constructor has run
InitialHandlers == constructor(EmptyHandlers, FALSE, FALSE).state

-----------------------------------------------------------------------------
(* TelegramWebApp: viewport *)

\* the window heights a run goes through
Heights == 0..MaxHeight

\* eventData.height: missing, or a number
NoHeight == [given |-> FALSE, value |-> 0]
Height(n) == [given |-> TRUE, value |-> n]

\* the data of viewport_changed: height, and is_state_stable ("absent" if
\* the host did not send it)
ViewportData(height, isStateStable) == [height |-> height, isStateStable |-> isStateStable]

\* Viewport.setHeight(data), with data from the host
setHeight(vp, data) ==
    Result("",
           [height |-> data.height.value,
            stableHeight |-> IF data.isStateStable = "true"
                             THEN data.height.value ELSE vp.stableHeight],
           IF data.isStateStable = "absent"
           THEN <<>>
           ELSE <<Emit("viewportChanged", Bool(data.isStateStable = "true"))>>)

\* the window and the viewport after a host event, and what was emitted
ViewportResult(win, vp, log) == [window |-> win, viewport |-> vp, out |-> log]

viewportSet(win, r) == ViewportResult(win, r.state, r.out)

\* TelegramWebApp.#onViewportChanged(_, eventData)
onViewportChangedKeepsListener(win, vp, eventData) ==
    IF ~eventData.height.given \/ eventData.height.value = 0
    THEN ViewportResult(win, vp, <<>>)
    ELSE viewportSet(win, setHeight(vp, eventData))
onViewportChanged(win, vp, eventData) ==
    IF ~eventData.height.given \/ eventData.height.value = 0
    THEN ViewportResult(win, vp, <<>>)
    ELSE viewportSet([win EXCEPT !.resize = FALSE], setHeight(vp, eventData))

\* TelegramWebApp.#onWindowResize(), window.innerHeight being `innerHeight`
onWindowResizeAlways(a, innerHeight) ==
    Result("", [a EXCEPT !.lastWindowHeight = innerHeight],
           <<Emit("viewportChanged", Bool(TRUE))>>)
onWindowResize(a, innerHeight) ==
    IF a.lastWindowHeight # innerHeight
    THEN Result("", [a EXCEPT !.lastWindowHeight = innerHeight],
                <<Emit("viewportChanged", Bool(TRUE))>>)
    ELSE Result("", a, <<>>)

\* the window fires resize: the listeners registered for it run
resize(a, win, innerHeight) ==
    IF win.resize THEN onWindowResize(a, innerHeight) ELSE Result("", a, <<>>)

\* the record of a resize or of a viewport_changed event: its data, and
\* #lastWindowHeight before it
DoneViewport(name, data, before) ==
    [name |-> name, err |-> "", arg |-> Undef, aux |-> Undef, cb |-> NoCallback,
     data |-> data, before |-> before]

-----------------------------------------------------------------------------
(* TelegramWebApp: closing confirmation *)

\* TelegramWebApp.#setClosingConfirmation(isEnabled), reached through the
\* setter of isClosingConfirmationEnabled
setClosingConfirmation(ver, a, isEnabled) ==
    IF ~isSuitableTo(ver, V6_2)
    THEN Result("", a, <<>>)
    ELSE Result("", [a EXCEPT !.isClosingConfirmationEnabled = Truthy(isEnabled)],
                <<Post("web_app_setup_closing_behavior", Bool(Truthy(isEnabled)), NoParams)>>)

\* TelegramWebApp.enableClosingConfirmation()
enableClosingConfirmation(ver, a) ==
    Result("", [a EXCEPT !.isClosingConfirmationEnabled = TRUE], <<>>)

\* TelegramWebApp.disableClosingConfirmation()
disableClosingConfirmation(ver, a) ==
    Result("", [a EXCEPT !.isClosingConfirmationEnabled = FALSE], <<>>)

\* the need_confirmation posted last, `before` being the one posted last
\* before `log`
PostedLast(before, log) ==
    IF \E i \in 1..Len(log) : log[i].name = "web_app_setup_closing_behavior"
    THEN log[Len(log)].arg = Bool(TRUE)
    ELSE before

\* the record of a call about the closing confirmation, with the
\* need_confirmation posted last
DoneConfirmation(name, isEnabled, posted) ==
    [name |-> name, err |-> "", arg |-> isEnabled, aux |-> Undef, cb |-> NoCallback,
     posted |-> posted]

-----------------------------------------------------------------------------
(* TelegramWebApp: popup *)

OK_BTN_ID == Str(0, 2, 0, "ok")

\* the end of showPopup, `r` being what this.#popup.open left: the event is
\* posted with this.#popup.params unless open threw
postOpenPopup(r) ==
    IF r.err # ""
    THEN Result(r.err, r.data, <<>>)
    ELSE Result("", r.data,
                <<Post("web_app_open_popup", Undef, PopupParams(r.data).value)>>)

\* TelegramWebApp.showPopup(params, callback)
showPopup(ver, p, params, callback, genId) ==
    IF ~isSuitableTo(ver, V6_2)
    THEN Result("MethodUnsupported", p, <<>>)
    ELSE IF p.isOpened
    THEN Result("PopupOpened", p, <<>>)
    ELSE postOpenPopup(PopupOpen(p, params, callback, genId))

\* the params TelegramWebApp.showConfirm(message, callback) hands to showPopup
ConfirmParams(message) ==
    [title |-> Undef,
     message |-> message,
     buttons |-> Buttons(<<
        WebAppPopupButton([id |-> OK_BTN_ID, type |-> TYPE_OK, text |-> Undef]).data,
        WebAppPopupButton([id |-> EmptyStr, type |-> TYPE_CANCEL, text |-> Undef]).data>>)]

\* TelegramWebApp.showConfirm(message, callback); `callback` is popupCallback
showConfirm(ver, p, message, callback) ==
    showPopup(ver, p, ConfirmParams(message), callback, Undef)

\* calling the callback a popup stored: popupCallback of showConfirm calls the
\* application's function with pressedBtnID === OK_BTN_ID
CallPopupCallback(callback, buttonID, live) ==
    IF ~HasCallback(callback)
    THEN <<>>
    ELSE IF callback.kind = "confirm"
    THEN IF callback.user
         THEN <<Call(callback, buttonID, live),
                UserCall(callback, Bool(buttonID = OK_BTN_ID))>>
         ELSE <<Call(callback, buttonID, live)>>
    ELSE <<Call(callback, buttonID, live)>>

\* #onPopupClosed that does not close the popup
onPopupClosedKeepsOpen(p, button_id) ==
    IF ~p.isOpened
    THEN Result("", p, <<>>)
    ELSE LET callback == p.data.callback
             buttonID == Coalesce(button_id, Null)
         IN  Result("", p,
                    (IF Truthy(buttonID)
                     THEN CallPopupCallback(callback, buttonID, p.isOpened)
                     ELSE <<>>)
                    \o <<Emit("popupClosed", buttonID)>>)

\* #onPopupClosed that tests buttonID !== null instead of its truthiness
onPopupClosedNullTest(p, button_id) ==
    IF ~p.isOpened
    THEN Result("", p, <<>>)
    ELSE LET callback == p.data.callback
             closed == PopupClose(p)
             buttonID == Coalesce(button_id, Null)
         IN  Result("", closed,
                    (IF buttonID.ty # "null"
                     THEN CallPopupCallback(callback, buttonID, closed.isOpened)
                     ELSE <<>>)
                    \o <<Emit("popupClosed", buttonID)>>)

\* TelegramWebApp.#onPopupClosed(_, eventData)
onPopupClosed(p, button_id) ==
    IF ~p.isOpened
    THEN Result("", p, <<>>)
    ELSE LET callback == p.data.callback
             closed == PopupClose(p)
             buttonID == Coalesce(button_id, Null)
         IN  Result("", closed,
                    (IF Truthy(buttonID)
                     THEN CallPopupCallback(callback, buttonID, closed.isOpened)
                     ELSE <<>>)
                    \o <<Emit("popupClosed", buttonID)>>)

\* the end of #onPopupClosed when the stored callback has called showPopup:
\* `call` is the call of the callback, `r` what showPopup left; if showPopup
\* threw, the callback and the handler end there and nothing is emitted
afterCallback(r, call, buttonID) ==
    IF r.err # ""
    THEN Result(r.err, r.state, call \o r.out)
    ELSE Result("", r.state, call \o r.out \o <<Emit("popupClosed", buttonID)>>)

\* #onPopupClosed that runs the callback before it closes the popup
onPopupClosedCallingFirst(ver, p, button_id, params, callback, genId) ==
    IF ~p.isOpened
    THEN Result("", p, <<>>)
    ELSE IF ~Truthy(Coalesce(button_id, Null)) \/ ~HasCallback(p.data.callback)
    THEN onPopupClosed(p, button_id)
    ELSE afterCallback(showPopup(ver, p, params, callback, genId),
                       CallPopupCallback(p.data.callback, Coalesce(button_id, Null),
                                         p.isOpened),
                       Coalesce(button_id, Null))

\* TelegramWebApp.#onPopupClosed(_, eventData), the application's function in
\* the stored callback calling showPopup(params, callback) when it runs
onPopupClosedCalling(ver, p, button_id, params, callback, genId) ==
    IF ~p.isOpened
    THEN Result("", p, <<>>)
    ELSE IF ~Truthy(Coalesce(button_id, Null)) \/ ~HasCallback(p.data.callback)
    THEN onPopupClosed(p, button_id)
    ELSE afterCallback(showPopup(ver, PopupClose(p), params, callback, genId),
                       CallPopupCallback(p.data.callback, Coalesce(button_id, Null),
                                         PopupClose(p).isOpened),
                       Coalesce(button_id, Null))

\* the record of a popup_closed event whose callback calls showPopup: the
\* button id, the stored callback, and the arguments of the call inside it
DoneInside(err, button_id, stored, params, callback, genId) ==
    [name |-> "popup_closed/showPopup", err |-> err, arg |-> button_id, aux |-> Undef,
     cb |-> stored, params |-> params, inner |-> callback, genId |-> genId]

-----------------------------------------------------------------------------
(* TelegramWebApp: clipboard and invoices *)

\* TelegramWebApp.readTextFromClipboard(callback); `id` is what generateId(16)
\* returned
readTextFromClipboard(ver, m, callback, id) ==
    IF ~isSuitableTo(ver, V6_4)
    THEN Result("MethodUnsupported", m, <<>>)
    ELSE Result("", MapSet(m, id, callback),
                <<Post("web_app_read_text_from_clipboard", id, NoParams)>>)

\* #onClipboardTextReceived that leaves the request registered
onClipboardTextReceivedKeepsRequest(m, id, data) ==
    IF ~Truthy(id) \/ ~MapHas(m, id)
    THEN Result("", m, <<>>)
    ELSE LET callback == m[id]
             text == IF data.ty = "undef" THEN Null ELSE data
         IN  Result("", m,
                    (IF HasCallback(callback)
                     THEN <<Call(callback, text, MapHas(m, id))>>
                     ELSE <<>>)
                    \o <<Emit("clipboardTextReceived", text)>>)

\* TelegramWebApp.#onClipboardTextReceived(_, {req_id: id, data = null})
onClipboardTextReceived(m, id, data) ==
    IF ~Truthy(id) \/ ~MapHas(m, id)
    THEN Result("", m, <<>>)
    ELSE LET callback == m[id]
             removed == MapRemove(m, id)
             text == IF data.ty = "undef" THEN Null ELSE data
         IN  Result("", removed,
                    (IF HasCallback(callback)
                     THEN <<Call(callback, text, MapHas(removed, id))>>
                     ELSE <<>>)
                    \o <<Emit("clipboardTextReceived", text)>>)

\* TelegramWebApp.openInvoice(url, callback)
openInvoiceOverwrites(m, url, callback) ==
    IF ~url.valid
    THEN Result("InvoiceUrlInvalid", m, <<>>)
    ELSE Result("", MapSet(m, url.slug, [url |-> url, callback |-> callback]),
                <<Post("web_app_open_invoice", url.slug, NoParams)>>)
openInvoice(m, url, callback) ==
    LET r == InvoicesCreate(m, url)
    IN  IF r.err # ""
        THEN Result(r.err, m, <<>>)
        ELSE Result("", MapSet(m, r.data, [url |-> url, callback |-> callback]),
                    <<Post("web_app_open_invoice", r.data, NoParams)>>)

\* TelegramWebApp.#onInvoiceClosed(_, {slug, status})
onInvoiceClosedClearsRegistry(m, slug, status) ==
    IF ~Truthy(slug) \/ ~MapHas(m, slug)
    THEN Result("", m, <<>>)
    ELSE Result("", EmptyMap,
                (IF HasCallback(m[slug].callback)
                 THEN <<Call(m[slug].callback, status, FALSE)>>
                 ELSE <<>>)
                \o <<Emit("invoiceClosed", status)>>)
onInvoiceClosed(m, slug, status) ==
    IF ~Truthy(slug)
    THEN Result("", m, <<>>)
    ELSE IF ~MapHas(m, slug)
    THEN Result("", m, <<>>)
    ELSE LET callback == m[slug].callback
             removed == MapRemove(m, slug)
         IN  Result("", removed,
                    (IF HasCallback(callback)
                     THEN <<Call(callback, status, MapHas(removed, slug))>>
                     ELSE <<>>)
                    \o <<Emit("invoiceClosed", status)>>)

-----------------------------------------------------------------------------
(* TelegramWebApp: inline query *)

CHAT_USERS == Str(0, 5, 0, "users")
CHAT_BOTS == Str(0, 4, 0, "bots")
CHAT_GROUPS == Str(0, 6, 0, "groups")
CHAT_CHANNELS == Str(0, 8, 0, "channels")
VALID_CHAT_TYPES == {CHAT_USERS, CHAT_BOTS, CHAT_GROUPS, CHAT_CHANNELS}

\* chatTypesToChoose: undefined, null, an array, or another value
NoChatTypes == [ty |-> "undef", list |-> <<>>]
ChatTypes(list) == [ty |-> "array", list |-> list]

AppendNew(seq, e) == IF \E i \in 1..Len(seq) : seq[i] = e THEN seq ELSE Append(seq, e)

\* [...new Set(chatTypes)]: the first occurrence of each element, in order
RECURSIVE Unique(_)
Unique(list) ==
    IF list = <<>>
    THEN <<>>
    ELSE AppendNew(Unique(SubSeq(list, 1, Len(list) - 1)), list[Len(list)])

\* the end of switchInlineQuery, `chats` being the chat types without
\* duplicates
postInlineQuery(queryToSend, chats) ==
    IF \E i \in 1..Len(chats) : chats[i] \notin VALID_CHAT_TYPES
    THEN Result("WebAppInlineChooseChatTypeInvalid", Undef, <<>>)
    ELSE Result("", Undef,
                <<Post("web_app_switch_inline_query", queryToSend, [chat_types |-> chats])>>)

\* the part of switchInlineQuery after the trimming of the query
sendInlineQuery(queryToSend, chatTypesToChoose) ==
    IF Length(queryToSend) > MAX_INLINE_QUERY_LENGTH
    THEN Result("WebAppInlineQueryInvalid", Undef, <<>>)
    ELSE IF chatTypesToChoose.ty # "array"
    THEN Result("WebAppInlineChooseChatTypesInvalid", Undef, <<>>)
    ELSE postInlineQuery(queryToSend, Unique(chatTypesToChoose.list))

\* TelegramWebApp.switchInlineQuery(query, chatTypesToChoose); `botInline` is
\* initParams.tgWebAppBotInline. The call has no state of its own.
switchInlineQuery(ver, botInline, query, chatTypesToChoose) ==
    IF ~isSuitableTo(ver, V6_7)
    THEN Result("MethodUnsupported", Undef, <<>>)
    ELSE IF ~botInline
    THEN Result("WebAppInlineModeDisabled", Undef, <<>>)
    ELSE sendInlineQuery(Trim(IF Truthy(query) THEN query ELSE EmptyStr),
                         chatTypesToChoose)

-----------------------------------------------------------------------------
(* TelegramWebApp: QR popup *)

\* TelegramWebApp.showScanQrPopup(params, callback)
showScanQrPopup(ver, q, text, callback) ==
    IF ~isSuitableTo(ver, V6_4)
    THEN Result("MethodUnsupported", q, <<>>)
    ELSE LET opened == QrPopupOpen(q, text, callback)
         IN  Result("", opened, <<Post("web_app_open_scan_qr_popup", opened.text, NoParams)>>)

\* closeScanQrPopup without its version gate
closeScanQrPopupUngated(ver, q) ==
    Result("", QrPopupClose(q), <<Post("web_app_close_scan_qr_popup", Undef, NoParams)>>)

\* TelegramWebApp.closeScanQrPopup()
closeScanQrPopup(ver, q) ==
    IF ~isSuitableTo(ver, V6_4)
    THEN Result("MethodUnsupported", q, <<>>)
    ELSE Result("", QrPopupClose(q), <<Post("web_app_close_scan_qr_popup", Undef, NoParams)>>)

\* #onQrTextReceived that closes the popup whatever the callback returns
onQrTextReceivedIgnoresResult(q, eventData, returned) ==
    IF ~q.isOpened
    THEN Result("", q, <<>>)
    ELSE LET callback == q.callback
             data == Coalesce(eventData, Null)
         IN  IF HasCallback(callback)
             THEN Result("", QrPopupClose(q),
                         <<Call(callback, data, q.isOpened),
                           Post("web_app_close_scan_qr_popup", Undef, NoParams),
                           Emit("qrTextReceived", data)>>)
             ELSE Result("", q, <<Emit("qrTextReceived", data)>>)

\* TelegramWebApp.#onQrTextReceived(_, eventData); `returned` is what the
\* stored callback returns when it is called
onQrTextReceived(q, eventData, returned) ==
    IF ~q.isOpened
    THEN Result("", q, <<>>)
    ELSE LET callback == q.callback
             data == Coalesce(eventData, Null)
         IN  IF HasCallback(callback) /\ Truthy(returned)
             THEN Result("", QrPopupClose(q),
                         <<Call(callback, data, q.isOpened),
                           Post("web_app_close_scan_qr_popup", Undef, NoParams),
                           Emit("qrTextReceived", data)>>)
             ELSE Result("", q,
                         (IF HasCallback(callback)
                          THEN <<Call(callback, data, q.isOpened)>>
                          ELSE <<>>)
                         \o <<Emit("qrTextReceived", data)>>)

\* #onScanQrPopupClosed that leaves the popup as it is
onScanQrPopupClosedNoop(q) == q

\* TelegramWebApp.#onScanQrPopupClosed()
onScanQrPopupClosed(q) == QrPopupClose(q)

-----------------------------------------------------------------------------
(* Inputs *)

HostVersions == {V6_0, V6_2, V6_4}

\* version strings: every list of up to MaxUnits units, a unit being empty,
\* an integer, an integer followed by other characters, or other characters
UnitInputs == {UnitStr(n, r) : n \in -1..MaxNum, r \in BOOLEAN}
VersionStrings == UNION {[1..k -> UnitInputs] : k \in 1..MaxUnits}
VersionInputs ==
    VersionStrings
    \cup {<<Num(6)>>, V6_1, V6_4, <<Num(6), Num(5)>>, <<Num(6), Num(0), Num(0)>>}

TitleInputs ==
    {Undef, Str(0, MAX_TITLE_LENGTH, 0, "t"), Str(0, MAX_TITLE_LENGTH + 1, 0, "t")}

MessageInputs ==
    {Undef, Str(0, MAX_MESSAGE_LENGTH, 0, "m"), Str(0, MAX_MESSAGE_LENGTH + 1, 0, "m")}

OkButton == [id |-> OK_BTN_ID, type |-> TYPE_OK, text |-> Undef]
BadButton == [id |-> Undef, type |-> Str(0, 5, 0, "bogus"), text |-> Undef]

ButtonsInputs ==
    {NoButtons,
     [ty |-> "other", list |-> <<>>],
     Buttons(<<>>),
     Buttons(<<OkButton>>),
     Buttons(<<OkButton, BadButton>>),
     Buttons(<<OkButton, OkButton, OkButton, OkButton>>)}

ValidTitle == Str(0, MAX_TITLE_LENGTH, 0, "t")
ValidMessage == Str(0, MAX_MESSAGE_LENGTH, 0, "m")

\* each field varied over all its inputs, the others held at a few values
ParamsInputs ==
    [title : TitleInputs, message : {ValidMessage}, buttons : {NoButtons}]
    \cup [title : {Undef, ValidTitle}, message : MessageInputs, buttons : {NoButtons}]
    \cup [title : {Undef}, message : {ValidMessage}, buttons : ButtonsInputs]
    \cup [title : {ValidTitle}, message : {ValidMessage}, buttons : {Buttons(<<>>)}]

\* strings of `core` characters between up to MaxPad whitespace characters,
\* and strings of whitespace alone
Padded(core, tag) == {Str(a, core, b, tag) : a \in 0..MaxPad, b \in 0..MaxPad}
Blank == {Str(a, 0, 0, "") : a \in 0..MaxPad}

\* the arguments of Popup.open at the edges of every rule
OpenTitleInputs ==
    {Undef} \cup Blank
    \cup Padded(MAX_TITLE_LENGTH, "t") \cup Padded(MAX_TITLE_LENGTH + 1, "t")

OpenMessageInputs ==
    {Undef} \cup Blank
    \cup Padded(MAX_MESSAGE_LENGTH, "m") \cup Padded(MAX_MESSAGE_LENGTH + 1, "m")

CancelButton == [id |-> Undef, type |-> TYPE_CANCEL, text |-> Str(0, 6, 0, "Cancel")]
DeleteButton ==
    [id |-> Str(0, 3, 0, "del"), type |-> TYPE_DESTRUCTIVE, text |-> Str(1, 6, 1, "Delete")]

OpenButtonsInputs ==
    ButtonsInputs
    \cup {[ty |-> "null", list |-> <<>>],
          Buttons(<<DeleteButton, OkButton>>),
          Buttons(<<OkButton, CancelButton, DeleteButton>>),
          Buttons(<<CancelButton, BadButton, OkButton>>)}

OpenParamsInputs ==
    [title : OpenTitleInputs, message : {ValidMessage}, buttons : {NoButtons}]
    \cup [title : {Undef, ValidTitle}, message : OpenMessageInputs, buttons : {NoButtons}]
    \cup [title : {Undef}, message : {ValidMessage}, buttons : OpenButtonsInputs]

\* the arguments of new WebAppPopupButton at the edges of every rule
ButtonIdArgs ==
    {Undef, Null, Bool(TRUE)}
    \cup Padded(MAX_ID_LENGTH - 1, "i") \cup Padded(MAX_ID_LENGTH, "i")
    \cup {EmptyStr, Str(0, MAX_ID_LENGTH + 1, 0, "i")}
ButtonTypeArgs == VALID_BUTTON_TYPES \cup {Undef, EmptyStr, Str(0, 5, 0, "bogus")}
ButtonTextArgs ==
    {Undef, Null, Str(0, 1, 0, "x")} \cup Blank
    \cup Padded(MAX_TEXT_LENGTH, "x") \cup Padded(MAX_TEXT_LENGTH + 1, "x")
ButtonConfigInputs == [id : ButtonIdArgs, type : ButtonTypeArgs, text : ButtonTextArgs]

\* generateId(5) and generateId(16)
GenId5 == {Str(0, 5, 0, ToString(i)) : i \in 1..IdSpace}
GenId16 == {Str(0, 16, 0, ToString(i)) : i \in 1..IdSpace}

\* what generateId(5) can return in Popup.open: it is called only when no
\* buttons are given
GenIdFor(params) == IF params.buttons.ty \in {"undef", "null"} THEN GenId5 ELSE {Undef}

ButtonIdInputs == {Undef, EmptyStr, OK_BTN_ID, Str(0, 1, 0, "x")}

ReqIdInputs == {Undef, EmptyStr} \cup GenId16
TextInputs == {Undef, Str(0, 1, 0, "c")}

Slugs == {Str(0, 2, 0, "s1"), Str(0, 2, 0, "s2")}
UrlInputs == {Url(FALSE, EmptyStr)} \cup {Url(TRUE, slug) : slug \in Slugs}
SlugInputs == {Undef} \cup Slugs
StatusInputs == {Str(0, 4, 0, "paid")}

ReturnInputs == {Undef, Bool(FALSE), Bool(TRUE)}

QueryInputs ==
    {Undef, Str(1, MAX_INLINE_QUERY_LENGTH, 1, "q"), Str(0, MAX_INLINE_QUERY_LENGTH + 1, 0, "q")}
ChatTypesInputs ==
    {NoChatTypes,
     [ty |-> "null", list |-> <<>>],
     [ty |-> "other", list |-> <<>>],
     ChatTypes(<<>>),
     ChatTypes(<<CHAT_USERS, CHAT_BOTS, CHAT_USERS>>),
     ChatTypes(<<CHAT_GROUPS, Str(0, 5, 0, "bogus")>>)}

\* the callbacks the application can pass: none, or a new function
CallbackInputs(kind) ==
    {NoCallback} \cup (IF nextTok <= MaxCalls THEN {Callback(nextTok, kind, TRUE)} ELSE {})

\* the wrappers showConfirm can build around the application's function
WrapperInputs(kind) ==
    IF nextTok <= MaxCalls THEN {Callback(nextTok, kind, u) : u \in BOOLEAN} ELSE {}

-----------------------------------------------------------------------------
(* State machine *)

Count(log, tok) == Cardinality({i \in 1..Len(log) : log[i].k = "cb" /\ log[i].tok = tok})

\* how often each callback has run after `log` (capped at 2)
Tally(inv, log) ==
    [t \in DOMAIN inv |->
        IF inv[t] + Count(log, t) > 2 THEN 2 ELSE inv[t] + Count(log, t)]

\* the next identity, `callback` having been stored or not
Used(callback, stored) == IF stored /\ HasCallback(callback) THEN nextTok + 1 ELSE nextTok

Init ==
    /\ version \in HostVersions
    /\ popup = ClosedPopup
    /\ qrPopup = ClosedQrPopup
    /\ clipboard = EmptyMap
    /\ invoices = EmptyMap
    /\ app = InitialApp
    /\ window = InitialWindow
    /\ viewport = InitialViewport
    /\ mainButton = InitialMainButton
    /\ backButton = InitialBackButton
    /\ handlers = InitialHandlers
    /\ nextTok = 1
    /\ invoked = [t \in 1..MaxCalls |-> 0]
    /\ op = Done("init", "", Undef, Undef, NoCallback)
    /\ out = <<>>

ShowPopupWith(params) ==
    \E callback \in CallbackInputs("plain") :
    \E genId \in GenIdFor(params) :
        LET r == showPopup(version, popup, params, callback, genId)
        IN  /\ popup' = r.state
            /\ out' = r.out
            /\ op' = DonePopup("showPopup", r.err, params, callback)
            /\ nextTok' = Used(callback, r.err = "")
            /\ invoked' = Tally(invoked, r.out)
            /\ UNCHANGED <<version, app, window, viewport, mainButton, backButton, handlers, qrPopup, clipboard, invoices>>

ShowPopup == \E params \in ParamsInputs : ShowPopupWith(params)

\* showPopup with a message alone
ShowPlainPopup == ShowPopupWith([title |-> Undef, message |-> ValidMessage, buttons |-> NoButtons])

ShowConfirm ==
    \E message \in MessageInputs, callback \in WrapperInputs("confirm") :
        LET r == showConfirm(version, popup, message, callback)
        IN  /\ popup' = r.state
            /\ out' = r.out
            /\ op' = Done("showConfirm", r.err, message, Undef, callback)
            /\ nextTok' = Used(callback, r.err = "")
            /\ invoked' = Tally(invoked, r.out)
            /\ UNCHANGED <<version, app, window, viewport, mainButton, backButton, handlers, qrPopup, clipboard, invoices>>

\* a direct call of Popup.open with `params`
OpenPopupWith(params) ==
    \E callback \in CallbackInputs("plain"), genId \in GenIdFor(params) :
        LET r == PopupOpen(popup, params, callback, genId)
        IN  /\ popup' = r.data
            /\ out' = <<>>
            /\ op' = DonePopup("Popup.open", r.err, params, callback)
            /\ nextTok' = Used(callback, r.err = "" /\ ~popup.isOpened)
            /\ UNCHANGED <<version, app, window, viewport, mainButton, backButton, handlers, qrPopup, clipboard, invoices, invoked>>

\* a direct call of Popup.open
OpenPopup == \E params \in ParamsInputs : OpenPopupWith(params)

\* a direct call of Popup.open, its arguments at the edges of every rule
OpenAnyPopup == \E params \in OpenParamsInputs : OpenPopupWith(params)

\* a direct call of Popup.close
ClosePopup ==
    /\ popup' = PopupClose(popup)
    /\ out' = <<>>
    /\ op' = Done("Popup.close", "", Undef, Undef, popup.data.callback)
    /\ UNCHANGED <<version, app, window, viewport, mainButton, backButton, handlers, qrPopup, clipboard, invoices, nextTok, invoked>>

\* the host sends popup_closed
PopupClosed ==
    \E button_id \in ButtonIdInputs :
        LET r == onPopupClosed(popup, button_id)
        IN  /\ popup' = r.state
            /\ out' = r.out
            /\ op' = Done("popup_closed", r.err, button_id, Undef, popup.data.callback)
            /\ invoked' = Tally(invoked, r.out)
            /\ UNCHANGED <<version, app, window, viewport, mainButton, backButton, handlers, qrPopup, clipboard, invoices, nextTok>>

\* the params of a showPopup call made inside a callback
InsideParamsInputs ==
    {[title |-> Undef, message |-> ValidMessage, buttons |-> NoButtons],
     [title |-> ValidTitle, message |-> ValidMessage, buttons |-> Buttons(<<OkButton>>)],
     [title |-> ValidTitle, message |-> EmptyStr, buttons |-> NoButtons]}

\* the host sends popup_closed and the stored callback calls showPopup
PopupClosedCalling ==
    \E button_id \in ButtonIdInputs, params \in InsideParamsInputs,
       callback \in CallbackInputs("plain") :
    \E genId \in GenIdFor(params) :
        LET r == onPopupClosedCalling(version, popup, button_id, params, callback, genId)
        IN  /\ popup.isOpened
            /\ popup.data.callback.user
            /\ popup' = r.state
            /\ out' = r.out
            /\ op' = DoneInside(r.err, button_id, popup.data.callback, params, callback, genId)
            /\ nextTok' = Used(callback, popup'.data.callback = callback)
            /\ invoked' = Tally(invoked, r.out)
            /\ UNCHANGED <<version, app, window, viewport, mainButton, backButton, handlers,
                           qrPopup, clipboard, invoices>>

ReadTextFromClipboard ==
    \E callback \in CallbackInputs("plain"), id \in GenId16 :
        LET r == readTextFromClipboard(version, clipboard, callback, id)
        IN  /\ clipboard' = r.state
            /\ out' = r.out
            /\ op' = Done("readTextFromClipboard", r.err, id, Undef, callback)
            /\ nextTok' = Used(callback, r.err = "")
            /\ invoked' = Tally(invoked, r.out)
            /\ UNCHANGED <<version, app, window, viewport, mainButton, backButton, handlers, popup, qrPopup, invoices>>

\* the host sends clipboard_text_received
ClipboardTextReceived ==
    \E id \in ReqIdInputs, data \in TextInputs :
        LET r == onClipboardTextReceived(clipboard, id, data)
        IN  /\ clipboard' = r.state
            /\ out' = r.out
            /\ op' = Done("clipboard_text_received", r.err, id, data,
                        IF MapHas(clipboard, id) THEN clipboard[id] ELSE NoCallback)
            /\ invoked' = Tally(invoked, r.out)
            /\ UNCHANGED <<version, app, window, viewport, mainButton, backButton, handlers, popup, qrPopup, invoices, nextTok>>

OpenInvoice ==
    \E url \in UrlInputs, callback \in CallbackInputs("plain") :
        LET r == openInvoice(invoices, url, callback)
        IN  /\ invoices' = r.state
            /\ out' = r.out
            /\ op' = Done("openInvoice", r.err, url.slug, Undef, callback)
            /\ nextTok' = Used(callback, r.err = "")
            /\ invoked' = Tally(invoked, r.out)
            /\ UNCHANGED <<version, app, window, viewport, mainButton, backButton, handlers, popup, qrPopup, clipboard>>

\* the host sends invoice_closed
InvoiceClosed ==
    \E slug \in SlugInputs, status \in StatusInputs :
        LET r == onInvoiceClosed(invoices, slug, status)
        IN  /\ invoices' = r.state
            /\ out' = r.out
            /\ op' = Done("invoice_closed", r.err, slug, status,
                        IF MapHas(invoices, slug) THEN invoices[slug].callback ELSE NoCallback)
            /\ invoked' = Tally(invoked, r.out)
            /\ UNCHANGED <<version, app, window, viewport, mainButton, backButton, handlers, popup, qrPopup, clipboard, nextTok>>

ShowScanQrPopup ==
    \E text \in TextInputs, callback \in CallbackInputs("scan") :
        LET r == showScanQrPopup(version, qrPopup, text, callback)
        IN  /\ qrPopup' = r.state
            /\ out' = r.out
            /\ op' = Done("showScanQrPopup", r.err, text, Undef, callback)
            /\ nextTok' = Used(callback, r.err = "" /\ ~qrPopup.isOpened)
            /\ invoked' = Tally(invoked, r.out)
            /\ UNCHANGED <<version, app, window, viewport, mainButton, backButton, handlers, popup, clipboard, invoices>>

CloseScanQrPopup ==
    LET r == closeScanQrPopup(version, qrPopup)
    IN  /\ qrPopup' = r.state
        /\ out' = r.out
        /\ op' = Done("closeScanQrPopup", r.err, Undef, Undef, NoCallback)
        /\ UNCHANGED <<version, app, window, viewport, mainButton, backButton, handlers, popup, clipboard, invoices, nextTok, invoked>>

\* the host sends qr_text_received
QrTextReceived ==
    \E data \in TextInputs, returned \in ReturnInputs :
        LET r == onQrTextReceived(qrPopup, data, returned)
        IN  /\ qrPopup' = r.state
            /\ out' = r.out
            /\ op' = Done("qr_text_received", r.err, data, returned, qrPopup.callback)
            /\ invoked' = Tally(invoked, r.out)
            /\ UNCHANGED <<version, app, window, viewport, mainButton, backButton, handlers, popup, clipboard, invoices, nextTok>>

SwitchInlineQuery ==
    \E botInline \in BOOLEAN, query \in QueryInputs, chatTypes \in ChatTypesInputs :
        LET r == switchInlineQuery(version, botInline, query, chatTypes)
        IN  /\ out' = r.out
            /\ op' = [name |-> "switchInlineQuery", err |-> r.err, arg |-> query,
                      aux |-> Bool(botInline), cb |-> NoCallback,
                      chatTypes |-> chatTypes]
            /\ UNCHANGED <<version, app, window, viewport, mainButton, backButton, handlers, popup, qrPopup, clipboard, invoices, nextTok, invoked>>

\* the host sends scan_qr_popup_closed
ScanQrPopupClosed ==
    /\ qrPopup' = onScanQrPopupClosed(qrPopup)
    /\ out' = <<>>
    /\ op' = Done("scan_qr_popup_closed", "", Undef, Undef, qrPopup.callback)
    /\ UNCHANGED <<version, app, window, viewport, mainButton, backButton, handlers, popup, clipboard, invoices, nextTok, invoked>>

\* the values assigned to isClosingConfirmationEnabled
EnabledInputs ==
    {Bool(TRUE), Bool(FALSE), Undef, Null, Str(0, 1, 0, "x"), Str(0, 5, 0, "false")} \cup Blank

\* app.isClosingConfirmationEnabled = isEnabled
SetClosingConfirmation ==
    \E isEnabled \in EnabledInputs :
        LET r == setClosingConfirmation(version, app, isEnabled)
        IN  /\ app' = r.state
            /\ out' = r.out
            /\ op' = DoneConfirmation("isClosingConfirmationEnabled", isEnabled,
                                      PostedLast(op.posted, r.out))
            /\ UNCHANGED <<version, window, viewport, mainButton, backButton, handlers,
                           popup, qrPopup, clipboard, invoices, nextTok, invoked>>

EnableClosingConfirmation ==
    LET r == enableClosingConfirmation(version, app)
    IN  /\ app' = r.state
        /\ out' = r.out
        /\ op' = DoneConfirmation("enableClosingConfirmation", Undef,
                                  PostedLast(op.posted, r.out))
        /\ UNCHANGED <<version, window, viewport, mainButton, backButton, handlers,
                       popup, qrPopup, clipboard, invoices, nextTok, invoked>>

DisableClosingConfirmation ==
    LET r == disableClosingConfirmation(version, app)
    IN  /\ app' = r.state
        /\ out' = r.out
        /\ op' = DoneConfirmation("disableClosingConfirmation", Undef,
                                  PostedLast(op.posted, r.out))
        /\ UNCHANGED <<version, window, viewport, mainButton, backButton, handlers,
                       popup, qrPopup, clipboard, invoices, nextTok, invoked>>

\* the data the host sends with viewport_changed
ViewportDataInputs ==
    {ViewportData(height, isStateStable) :
        height \in {NoHeight} \cup {Height(n) : n \in Heights},
        isStateStable \in {"absent", "true", "false"}}

\* the window is resized to `innerHeight` and fires resize
WindowResize ==
    \E innerHeight \in Heights :
        LET r == resize(app, window, innerHeight)
        IN  /\ window' = [window EXCEPT !.innerHeight = innerHeight]
            /\ app' = r.state
            /\ out' = r.out
            /\ op' = DoneViewport("resize", ViewportData(Height(innerHeight), "absent"),
                                  app.lastWindowHeight)
            /\ UNCHANGED <<version, viewport, mainButton, backButton, handlers, popup, qrPopup,
                           clipboard, invoices, nextTok, invoked>>

\* the host sends viewport_changed
ViewportChanged ==
    \E eventData \in ViewportDataInputs :
        LET r == onViewportChanged(window, viewport, eventData)
        IN  /\ window' = r.window
            /\ viewport' = r.viewport
            /\ out' = r.out
            /\ op' = DoneViewport("viewport_changed", eventData, app.lastWindowHeight)
            /\ UNCHANGED <<version, app, mainButton, backButton, handlers, popup, qrPopup,
                           clipboard, invoices, nextTok, invoked>>

\* TelegramWebApp.onEvent(eventType, callback); MainButton.onClick and
\* BackButton.onClick take the same path through their CLICKED listeners
OnEvent ==
    \E name \in {MAIN_BUTTON_CLICKED, BACK_BUTTON_CLICKED}, handler \in Handlers :
        /\ handlers' = onEvent(handlers, name, handler)
        /\ out' = <<>>
        /\ op' = DoneButton("onEvent", name, handler)
        /\ UNCHANGED <<version, app, window, viewport, mainButton, backButton, popup, qrPopup, clipboard, invoices,
                       nextTok, invoked>>

\* TelegramWebApp.offEvent(eventType, callback); MainButton.offClick and
\* BackButton.offClick take the same path through their OFF_CLICKED listeners
OffEvent ==
    \E name \in {MAIN_BUTTON_CLICKED, BACK_BUTTON_CLICKED}, handler \in Handlers :
        /\ handlers' = offEvent(handlers, name, handler)
        /\ out' = <<>>
        /\ op' = DoneButton("offEvent", name, handler)
        /\ UNCHANGED <<version, app, window, viewport, mainButton, backButton, popup, qrPopup, clipboard, invoices,
                       nextTok, invoked>>

\* MainButton.enable() / disable(): a change of isActive is announced to the
\* host through the UPDATED listener
SetMainButtonActive ==
    \E isActive \in BOOLEAN :
        /\ isActive # mainButton.isActive
        /\ mainButton' = [mainButton EXCEPT !.isActive = isActive]
        /\ out' = <<Post("web_app_setup_main_button", Bool(isActive), NoParams)>>
        /\ op' = DoneButton("setMainButtonActive", "", 0)
        /\ UNCHANGED <<version, app, window, viewport, backButton, handlers, popup, qrPopup, clipboard, invoices,
                       nextTok, invoked>>

\* the BackButton emits CREATED, once
BackButtonCreated ==
    /\ ~backButton.isCreated
    /\ backButton' = [backButton EXCEPT !.isCreated = TRUE]
    /\ handlers' = onBackButtonCreated(handlers)
    /\ out' = <<>>
    /\ op' = DoneButton("backButtonCreated", "", 0)
    /\ UNCHANGED <<version, app, window, viewport, mainButton, popup, qrPopup, clipboard, invoices, nextTok, invoked>>

\* the functions of `list`, as a set
Subscribed(list) == {list[i] : i \in 1..Len(list)}

\* the behaviours of the functions subscribed in `list`: at most MaxActing of
\* them change the subscriptions, any of them may throw
BehaviourInputs(list) ==
    {Behaviour(effects, throws) :
        effects \in {e \in [Handlers -> Effects] :
                        /\ \A h \in Handlers \ Subscribed(list) : e[h] = NoEffect
                        /\ Cardinality({h \in Handlers : e[h] # NoEffect}) <= MaxActing},
        throws \in SUBSET Subscribed(list)}

\* the host sends main_button_pressed
MainButtonPressed ==
    \E does \in BehaviourInputs(handlers[MAIN_BUTTON_CLICKED]) :
        LET r == receiveEvent(handlers, "main_button_pressed", mainButton, does)
        IN  /\ handlers' = r.state
            /\ out' = r.out
            /\ op' = DoneDispatch("main_button_pressed", r.err, does)
            /\ UNCHANGED <<version, app, window, viewport, mainButton, backButton, popup,
                           qrPopup, clipboard, invoices, nextTok, invoked>>

\* the host sends back_button_pressed
BackButtonPressed ==
    \E does \in BehaviourInputs(handlers[BACK_BUTTON_CLICKED]) :
        LET r == receiveEvent(handlers, "back_button_pressed", mainButton, does)
        IN  /\ handlers' = r.state
            /\ out' = r.out
            /\ op' = DoneDispatch("back_button_pressed", r.err, does)
            /\ UNCHANGED <<version, app, window, viewport, mainButton, backButton, popup,
                           qrPopup, clipboard, invoices, nextTok, invoked>>

Next ==
    \/ ShowPopup
    \/ ShowConfirm
    \/ OpenPopup
    \/ ClosePopup
    \/ PopupClosed
    \/ ReadTextFromClipboard
    \/ ClipboardTextReceived
    \/ OpenInvoice
    \/ InvoiceClosed
    \/ ShowScanQrPopup
    \/ CloseScanQrPopup
    \/ QrTextReceived
    \/ ScanQrPopupClosed
    \/ SwitchInlineQuery
    \/ OnEvent
    \/ OffEvent
    \/ SetMainButtonActive
    \/ BackButtonCreated
    \/ MainButtonPressed
    \/ BackButtonPressed
    \/ WindowResize
    \/ ViewportChanged
    \/ PopupClosedCalling

Spec == Init /\ [][Next]_vars

\* the popup alone
NextPopup ==
    \/ ShowPopup
    \/ ShowConfirm
    \/ OpenPopup
    \/ ClosePopup
    \/ PopupClosed

SpecPopup == Init /\ [][NextPopup]_vars

\* the pending request registries alone
NextRequests ==
    \/ ReadTextFromClipboard
    \/ ClipboardTextReceived
    \/ OpenInvoice
    \/ InvoiceClosed

SpecRequests == Init /\ [][NextRequests]_vars

\* the QR popup alone
NextQr ==
    \/ ShowScanQrPopup
    \/ CloseScanQrPopup
    \/ QrTextReceived
    \/ ScanQrPopupClosed

SpecQr == Init /\ [][NextQr]_vars

\* Popup.open and Popup.close alone
NextOpen ==
    \/ OpenAnyPopup
    \/ ClosePopup

SpecOpen == Init /\ [][NextOpen]_vars

\* the constructor of WebAppPopupButton alone: a config is drawn, then the
\* button is built from it
InitButton ==
    /\ version = V6_0
    /\ popup = ClosedPopup
    /\ qrPopup = ClosedQrPopup
    /\ clipboard = EmptyMap
    /\ invoices = EmptyMap
    /\ app = InitialApp
    /\ window = InitialWindow
    /\ viewport = InitialViewport
    /\ mainButton = InitialMainButton
    /\ backButton = InitialBackButton
    /\ handlers = InitialHandlers
    /\ nextTok = 1
    /\ invoked = [t \in 1..MaxCalls |-> 0]
    /\ \E config \in ButtonConfigInputs :
            op = Done("config", "", config, Undef, NoCallback)
    /\ out = <<>>

\* new WebAppPopupButton(config); `aux` is the button's data
NewButton ==
    /\ op.name = "config"
    /\ LET r == WebAppPopupButton(op.arg)
       IN  op' = Done("WebAppPopupButton", r.err, op.arg, r.data, NoCallback)
    /\ out' = <<>>
    /\ UNCHANGED <<version, app, window, viewport, mainButton, backButton, handlers, popup, qrPopup, clipboard, invoices, nextTok, invoked>>

NextButton == NewButton

SpecButton == InitButton /\ [][NextButton]_vars

\* the version-gated calls together, on hosts around every required version;
\* the calls carry no callback (nextTok is past the last identity)
GateVersions == {V6_0, V6_1, V6_2, V6_4, V6_7}

InitGate ==
    /\ version \in GateVersions
    /\ popup = ClosedPopup
    /\ qrPopup = ClosedQrPopup
    /\ clipboard = EmptyMap
    /\ invoices = EmptyMap
    /\ app = InitialApp
    /\ window = InitialWindow
    /\ viewport = InitialViewport
    /\ mainButton = InitialMainButton
    /\ backButton = InitialBackButton
    /\ handlers = InitialHandlers
    /\ nextTok = MaxCalls + 1
    /\ invoked = [t \in 1..MaxCalls |-> 0]
    /\ op = Done("init", "", Undef, Undef, NoCallback)
    /\ out = <<>>

NextGate ==
    \/ ShowPopup
    \/ OpenPopup
    \/ PopupClosed
    \/ ReadTextFromClipboard
    \/ ClipboardTextReceived
    \/ ShowScanQrPopup
    \/ CloseScanQrPopup
    \/ SwitchInlineQuery

SpecGate == InitGate /\ [][NextGate]_vars

\* switchInlineQuery alone, on hosts 6.0 to 6.7
NextInline == SwitchInlineQuery

SpecInline == InitGate /\ [][NextInline]_vars

\* the version gate alone: any version string the host may have passed, and
\* any target the application asks about
InitVersion ==
    /\ version \in VersionInputs
    /\ popup = ClosedPopup
    /\ qrPopup = ClosedQrPopup
    /\ clipboard = EmptyMap
    /\ invoices = EmptyMap
    /\ app = InitialApp
    /\ window = InitialWindow
    /\ viewport = InitialViewport
    /\ mainButton = InitialMainButton
    /\ backButton = InitialBackButton
    /\ handlers = InitialHandlers
    /\ nextTok = 1
    /\ invoked = [t \in 1..MaxCalls |-> 0]
    /\ op = Done("init", "", Undef, Undef, NoCallback)
    /\ out = <<>>

\* TelegramWebApp.isVersionAtLeast(version)
IsVersionAtLeast ==
    \E target \in VersionInputs :
        /\ op' = Done("isVersionAtLeast", "", target,
                      Bool(isSuitableTo(version, target)), NoCallback)
        /\ out' = <<>>
        /\ UNCHANGED <<version, app, window, viewport, mainButton, backButton, handlers, popup, qrPopup, clipboard, invoices, nextTok, invoked>>

NextVersion == IsVersionAtLeast

SpecVersion == InitVersion /\ [][NextVersion]_vars

\* the popup, the QR popup and the pending requests together, on a host where
\* every method is available; one call of the run is given a callback
InitClosing ==
    /\ version = V6_4
    /\ popup = ClosedPopup
    /\ qrPopup = ClosedQrPopup
    /\ clipboard = EmptyMap
    /\ invoices = EmptyMap
    /\ app = InitialApp
    /\ window = InitialWindow
    /\ viewport = InitialViewport
    /\ mainButton = InitialMainButton
    /\ backButton = InitialBackButton
    /\ handlers = InitialHandlers
    /\ nextTok = MaxCalls
    /\ invoked = [t \in 1..MaxCalls |-> 0]
    /\ op = Done("init", "", Undef, Undef, NoCallback)
    /\ out = <<>>

NextClosing ==
    \/ ReadTextFromClipboard
    \/ ClipboardTextReceived
    \/ OpenInvoice
    \/ InvoiceClosed
    \/ ShowPlainPopup
    \/ PopupClosed
    \/ ShowScanQrPopup
    \/ CloseScanQrPopup
    \/ QrTextReceived
    \/ ScanQrPopupClosed

SpecClosing == InitClosing /\ [][NextClosing]_vars

\* the popup, with callbacks that open the next popup
NextInside ==
    \/ ShowPopup
    \/ PopupClosed
    \/ PopupClosedCalling

SpecInside == Init /\ [][NextInside]_vars

\* initParams.tgWebAppVersion: missing, or a version string
NoVersion == <<>>
InitParamsInputs ==
    [tgWebAppVersion : {NoVersion} \cup VersionInputs,
     bgColorUpdated : BOOLEAN, heightChanged : BOOLEAN]

\* the version a Version holds until set is called (the oldest host stands
\* for it; nothing checked depends on which)
DEFAULT_VERSION == V6_0

\* before new TelegramWebApp(dependencies): the dependencies are new, the
\* WebView carries the init params
InitConstruct ==
    /\ version = DEFAULT_VERSION
    /\ popup = ClosedPopup
    /\ qrPopup = ClosedQrPopup
    /\ clipboard = EmptyMap
    /\ invoices = EmptyMap
    /\ app = InitialApp
    /\ window = [InitialWindow EXCEPT !.resize = FALSE]
    /\ viewport = InitialViewport
    /\ mainButton = InitialMainButton
    /\ backButton = InitialBackButton
    /\ handlers = EmptyHandlers
    /\ nextTok = 1
    /\ invoked = [t \in 1..MaxCalls |-> 0]
    /\ \E initParams \in InitParamsInputs :
            op = [name |-> "initParams", err |-> "", arg |-> Undef, aux |-> Undef,
                  cb |-> NoCallback, initParams |-> initParams]
    /\ out = <<>>

\* new TelegramWebApp(dependencies)
Construct ==
    /\ op.name = "initParams"
    /\ LET r == constructor(handlers, op.initParams.bgColorUpdated,
                            op.initParams.heightChanged)
       IN  /\ handlers' = r.state
           /\ out' = r.out
    /\ version' = IF op.initParams.tgWebAppVersion = NoVersion
                  THEN version ELSE op.initParams.tgWebAppVersion
    /\ window' = [window EXCEPT !.resize = TRUE]
    /\ op' = [op EXCEPT !.name = "new"]
    /\ UNCHANGED <<app, viewport, mainButton, backButton, popup, qrPopup, clipboard,
                   invoices, nextTok, invoked>>

NextConstruct == Construct

SpecConstruct == InitConstruct /\ [][NextConstruct]_vars

\* the closing confirmation alone, on hosts 6.0 to 6.7; nothing has been
\* posted about it at construction
ConfirmationVersions == {<<Num(6), Num(k)>> : k \in 0..7}

InitConfirmation ==
    /\ version \in ConfirmationVersions
    /\ popup = ClosedPopup
    /\ qrPopup = ClosedQrPopup
    /\ clipboard = EmptyMap
    /\ invoices = EmptyMap
    /\ app = InitialApp
    /\ window = InitialWindow
    /\ viewport = InitialViewport
    /\ mainButton = InitialMainButton
    /\ backButton = InitialBackButton
    /\ handlers = InitialHandlers
    /\ nextTok = 1
    /\ invoked = [t \in 1..MaxCalls |-> 0]
    /\ op = DoneConfirmation("init", Undef, FALSE)
    /\ out = <<>>

NextConfirmation ==
    \/ SetClosingConfirmation
    \/ EnableClosingConfirmation
    \/ DisableClosingConfirmation

SpecConfirmation == InitConfirmation /\ [][NextConfirmation]_vars

\* the viewport alone
NextViewport ==
    \/ WindowResize
    \/ ViewportChanged

SpecViewport == Init /\ [][NextViewport]_vars

\* the buttons and their subscribers alone
NextClicks ==
    \/ OnEvent
    \/ OffEvent
    \/ SetMainButtonActive
    \/ BackButtonCreated
    \/ MainButtonPressed
    \/ BackButtonPressed

SpecClicks == Init /\ [][NextClicks]_vars


-----------------------------------------------------------------------------
(* Claims *)

CallsIn(log) == {i \in 1..Len(log) : log[i].k = "cb"}
UserCallsIn(log) == {i \in 1..Len(log) : log[i].k = "usercb"}
PostsIn(log, name) == {i \in 1..Len(log) : log[i].k = "post" /\ log[i].name = name}
EmitsIn(log, name) == {i \in 1..Len(log) : log[i].k = "emit" /\ log[i].name = name}

\* C1: while the popup is open, Popup.open changes nothing and raises nothing,
\* whatever its arguments; showPopup and showConfirm fail, with the
\* already-opened error once the version gate is passed, post nothing and
\* change nothing; and as long as the popup stays open its params and callback
\* are those it was opened with.
C1_OpenPopupIsNotReplaced ==
    [][popup.isOpened =>
        /\ (op'.name = "Popup.open" => op'.err = "" /\ popup' = popup)
        /\ (op'.name \in {"showPopup", "showConfirm"} =>
                /\ op'.err \in {"PopupOpened", "MethodUnsupported"}
                /\ (isSuitableTo(version, V6_2) => op'.err = "PopupOpened")
                /\ PostsIn(out', "web_app_open_popup") = {}
                /\ popup' = popup)
        /\ (popup'.isOpened => popup'.data = popup.data)]_vars

\* C1 witness: showPopup with valid params and a new callback has just failed
\* with the already-opened error, the popup still holding another callback.
C1_Witness ==
    /\ op.name = "showPopup"
    /\ op.err = "PopupOpened"
    /\ op.arg = ValidMessage
    /\ HasCallback(op.cb)
    /\ popup.isOpened
    /\ popup.data.callback # op.cb

\* C2: a stored popup callback runs at most once; it runs only in the handling
\* of a popup_closed received while its popup is open, and only with a non-empty
\* button_id; after that popup_closed the popup is closed; a popup_closed
\* received while no popup is open calls nothing, emits nothing and changes
\* nothing.
C2_PopupCallbackAtMostOnce ==
    [][/\ \A t \in DOMAIN invoked' : invoked'[t] <= 1
       /\ (CallsIn(out') # {} =>
                /\ op'.name = "popup_closed"
                /\ popup.isOpened
                /\ Truthy(op'.arg)
                /\ \A i \in CallsIn(out') : out'[i].tok = popup.data.callback.tok)
       /\ (op'.name = "popup_closed" /\ popup.isOpened => ~popup'.isOpened)
       /\ (op'.name = "popup_closed" /\ ~popup.isOpened =>
                /\ out' = <<>>
                /\ UNCHANGED <<popup, qrPopup, clipboard, invoices, invoked>>)]_vars

\* C2 witness: a popup_closed has just been ignored, no popup being open, after
\* an earlier popup_closed ran a stored callback.
C2_Witness ==
    /\ op.name = "popup_closed"
    /\ Truthy(op.arg)
    /\ out = <<>>
    /\ ~popup.isOpened
    /\ \E t \in DOMAIN invoked : invoked[t] = 1

\* C3: when popup_closed closes a popup opened by showConfirm(message, cb):
\* button_id "ok" calls cb(true); button_id "" calls nothing and still emits
\* popupClosed with button_id ""; and cb gets true only for button_id "ok".
C3_ConfirmCallback ==
    [][(/\ op'.name = "popup_closed"
        /\ popup.isOpened
        /\ popup.data.callback.kind = "confirm"
        /\ popup.data.callback.user) =>
        /\ (op'.arg = OK_BTN_ID =>
                \E i \in UserCallsIn(out') :
                    /\ out'[i].arg = Bool(TRUE)
                    /\ out'[i].tok = popup.data.callback.tok)
        /\ (op'.arg = EmptyStr =>
                /\ CallsIn(out') = {}
                /\ UserCallsIn(out') = {}
                /\ out' = <<Emit("popupClosed", EmptyStr)>>)
        /\ \A i \in UserCallsIn(out') : (out'[i].arg = Bool(TRUE)) <=> (op'.arg = OK_BTN_ID)
        /\ Cardinality(UserCallsIn(out')) <= 1]_vars

\* C3 witness: the popup of a showConfirm with a callback has just been closed
\* by popup_closed with button_id "": nothing was called, popupClosed was emitted.
C3_Witness ==
    /\ op.name = "popup_closed"
    /\ op.arg = EmptyStr
    /\ op.cb.kind = "confirm"
    /\ op.cb.user
    /\ out = <<Emit("popupClosed", EmptyStr)>>

\* the params the accessor returns are a full spec: a message and 1..3 buttons
FullSpec(params) ==
    /\ params.message.ty = "str"
    /\ Length(params.message) \in 1..MAX_MESSAGE_LENGTH
    /\ params.buttons.ty = "array"
    /\ Len(params.buttons.list) \in MIN_BUTTONS..MAX_BUTTONS

\* C4: the params accessor returns null exactly when the popup is closed, and
\* a full validated spec exactly when it is open.
C4_ParamsNullIffClosed ==
    /\ PopupParams(popup).null <=> ~popup.isOpened
    /\ popup.isOpened => FullSpec(PopupParams(popup).value)

\* C5: Popup.close from any state leaves isOpened false, params null and
\* callback null, and a close that follows a close changes nothing.
C5_CloseResetsAndIsIdempotent ==
    [][op'.name = "Popup.close" =>
        /\ ~popup'.isOpened
        /\ PopupParams(popup').null
        /\ ~HasCallback(popup'.data.callback)
        /\ (op.name = "Popup.close" => popup' = popup)]_vars

\* C5 witness: Popup.close has just run on a popup that held a callback, and
\* has left it in the initial state.
C5_Witness ==
    /\ op.name = "Popup.close"
    /\ HasCallback(op.cb)
    /\ popup = ClosedPopup

\* C6: a clipboard_text_received or invoice_closed whose id is missing or not
\* registered calls nothing, emits nothing and leaves the registries as they
\* are; a matching one removes the entry, then calls its callback (the entry
\* being gone by then), then emits the application event last; and no callback
\* of a request runs more than once.
C6_ResponseMatchedAtMostOnce ==
    [][/\ \A t \in DOMAIN invoked' : invoked'[t] <= 1
       /\ (op'.name = "clipboard_text_received" =>
            IF Truthy(op'.arg) /\ MapHas(clipboard, op'.arg)
            THEN /\ clipboard' = MapRemove(clipboard, op'.arg)
                 /\ Cardinality(CallsIn(out')) =
                        IF HasCallback(clipboard[op'.arg]) THEN 1 ELSE 0
                 /\ \A i \in CallsIn(out') :
                        /\ out'[i].tok = clipboard[op'.arg].tok
                        /\ ~out'[i].live
                        /\ i < Len(out')
                 /\ EmitsIn(out', "clipboardTextReceived") = {Len(out')}
                 /\ invoices' = invoices
            ELSE out' = <<>> /\ UNCHANGED <<clipboard, invoices, invoked>>)
       /\ (op'.name = "invoice_closed" =>
            IF Truthy(op'.arg) /\ MapHas(invoices, op'.arg)
            THEN /\ invoices' = MapRemove(invoices, op'.arg)
                 /\ Cardinality(CallsIn(out')) =
                        IF HasCallback(invoices[op'.arg].callback) THEN 1 ELSE 0
                 /\ \A i \in CallsIn(out') :
                        /\ out'[i].tok = invoices[op'.arg].callback.tok
                        /\ ~out'[i].live
                        /\ i < Len(out')
                 /\ EmitsIn(out', "invoiceClosed") = {Len(out')}
                 /\ clipboard' = clipboard
            ELSE out' = <<>> /\ UNCHANGED <<clipboard, invoices, invoked>>)]_vars

\* C6 witness: a clipboard_text_received naming a generated id has just been
\* ignored, the registry being empty after an earlier response ran a callback.
C6_Witness ==
    /\ op.name = "clipboard_text_received"
    /\ op.arg \in GenId16
    /\ out = <<>>
    /\ clipboard = EmptyMap
    /\ \E t \in DOMAIN invoked : invoked[t] = 1

\* C7: a readTextFromClipboard that succeeds registers its callback under an
\* id no outstanding request has, and leaves every outstanding request as it is.
C7_FreshRequestId ==
    [][(op'.name = "readTextFromClipboard" /\ op'.err = "") =>
        /\ ~MapHas(clipboard, op'.arg)
        /\ \A id \in DOMAIN clipboard : MapHas(clipboard', id) /\ clipboard'[id] = clipboard[id]]_vars

\* C8: on qr_text_received while the QR popup is open the stored callback is
\* called with the data (null if absent); if it returns true the popup is
\* closed and web_app_close_scan_qr_popup posted once; if not, or if there is
\* no callback, the popup stays as it is and nothing is posted; while the QR
\* popup is closed, qr_text_received calls nothing and emits nothing.
C8_ScanDelivery ==
    [][op'.name = "qr_text_received" =>
        IF qrPopup.isOpened
        THEN /\ Cardinality(CallsIn(out')) = IF HasCallback(qrPopup.callback) THEN 1 ELSE 0
             /\ \A i \in CallsIn(out') :
                    /\ out'[i].tok = qrPopup.callback.tok
                    /\ out'[i].arg = Coalesce(op'.arg, Null)
             /\ IF HasCallback(qrPopup.callback) /\ op'.aux = Bool(TRUE)
                THEN /\ ~qrPopup'.isOpened
                     /\ Cardinality(PostsIn(out', "web_app_close_scan_qr_popup")) = 1
                ELSE /\ qrPopup' = qrPopup
                     /\ \A i \in 1..Len(out') : out'[i].k # "post"
        ELSE /\ out' = <<>>
             /\ qrPopup' = qrPopup]_vars

\* C8 witness: a scan has just been delivered to a callback that returned
\* true: the QR popup is closed and the close event was posted.
C8_Witness ==
    /\ op.name = "qr_text_received"
    /\ op.aux = Bool(TRUE)
    /\ HasCallback(op.cb)
    /\ ~qrPopup.isOpened
    /\ CallsIn(out) # {}
    /\ PostsIn(out, "web_app_close_scan_qr_popup") # {}

\* C9: scan_qr_popup_closed leaves the QR popup closed, from any state; while
\* it is closed no scan callback is called; and it becomes open again only by
\* a showScanQrPopup that succeeds.
C9_HostCloseForcesClosed ==
    [][/\ (op'.name = "scan_qr_popup_closed" => qrPopup' = ClosedQrPopup)
       /\ (~qrPopup.isOpened => CallsIn(out') = {})
       /\ (~qrPopup.isOpened /\ qrPopup'.isOpened =>
                op'.name = "showScanQrPopup" /\ op'.err = "")]_vars

\* C9 witness: scan_qr_popup_closed has just closed the QR popup after its
\* callback had been called and had left it open.
C9_Witness ==
    /\ op.name = "scan_qr_popup_closed"
    /\ HasCallback(op.cb)
    /\ invoked[op.cb.tok] >= 1
    /\ ~qrPopup.isOpened

\* C10: showScanQrPopup called while the QR popup is open fails with the
\* already-opened error, posts no web_app_open_scan_qr_popup and leaves the
\* stored text and callback as they are.
C10_ScanQrPopupAlreadyOpen ==
    [][(op'.name = "showScanQrPopup" /\ qrPopup.isOpened) =>
        /\ op'.err = "ScanQrPopupOpened"
        /\ PostsIn(out', "web_app_open_scan_qr_popup") = {}
        /\ qrPopup' = qrPopup]_vars

-----------------------------------------------------------------------------
(* The version gate *)

\* the integer a unit counts for: its value if it is an integer, 0 if it is
\* missing or not numeric
NumericValue(units, i) ==
    IF i <= Len(units) /\ units[i].lead >= 0 /\ ~units[i].rest
    THEN units[i].lead
    ELSE 0

\* component-wise comparison of the padded integer components
RECURSIVE ComponentwiseFrom(_, _, _)
ComponentwiseFrom(a, b, i) ==
    IF i > Len(a) /\ i > Len(b)
    THEN 0
    ELSE IF NumericValue(a, i) # NumericValue(b, i)
    THEN IF NumericValue(a, i) > NumericValue(b, i) THEN 1 ELSE -1
    ELSE ComponentwiseFrom(a, b, i + 1)

\* C11: isVersionAtLeast(target) is true iff the current version is >= the
\* target under component-wise comparison of the integer components, missing
\* and non-numeric components counting as 0; "6.4" is suitable to "6.1" and
\* "6.4" and not to "6.5", "6" compares equal to "6.0.0"; the comparison is
\* reflexive and antisymmetric.
C11_VersionGate ==
    op.name = "isVersionAtLeast" =>
        /\ (op.aux = Bool(TRUE)) <=> (ComponentwiseFrom(version, op.arg, 1) >= 0)
        /\ (version = V6_4 /\ op.arg \in {V6_1, V6_4}) => op.aux = Bool(TRUE)
        /\ (version = V6_4 /\ op.arg = <<Num(6), Num(5)>>) => op.aux = Bool(FALSE)
        /\ (version = <<Num(6)>> /\ op.arg = <<Num(6), Num(0), Num(0)>>)
                => versionCompare(version, op.arg) = 0
        /\ versionCompare(version, version) = 0
        /\ versionCompare(version, op.arg) = -versionCompare(op.arg, version)

\* the version each gated call requires
RequiredVersion(name) ==
    CASE name = "showPopup" -> V6_2
      [] name = "readTextFromClipboard" -> V6_4
      [] name = "showScanQrPopup" -> V6_4
      [] name = "closeScanQrPopup" -> V6_4
      [] name = "switchInlineQuery" -> V6_7

GatedCalls ==
    {"showPopup", "readTextFromClipboard", "showScanQrPopup", "closeScanQrPopup",
     "switchInlineQuery"}

\* C12: showPopup (6.2), readTextFromClipboard (6.4), showScanQrPopup (6.4),
\* closeScanQrPopup (6.4) and switchInlineQuery (6.7) called on a host below
\* the required version fail with MethodUnsupported, post nothing, register
\* no request and change no popup or QR popup state.
C12_GateBeforeAnythingElse ==
    [][(/\ op'.name \in GatedCalls
        /\ ComponentwiseFrom(version, RequiredVersion(op'.name), 1) < 0)
       => (/\ op'.err = "MethodUnsupported"
           /\ out' = <<>>
           /\ popup' = popup
           /\ qrPopup' = qrPopup
           /\ clipboard' = clipboard
           /\ invoices' = invoices)]_vars

\* C12 witness: switchInlineQuery has just been refused on a host 6.4 whose
\* popup and QR popup are open and whose clipboard has a pending request
C12_Witness ==
    /\ op.name = "switchInlineQuery"
    /\ op.err = "MethodUnsupported"
    /\ version = V6_4
    /\ popup.isOpened
    /\ qrPopup.isOpened
    /\ clipboard # EmptyMap

\* C13: openInvoice on a host below 6.1 fails with MethodUnsupported, records
\* no pending invoice and posts no web_app_open_invoice.
C13_OpenInvoiceGate ==
    [][(/\ op'.name = "openInvoice"
        /\ ComponentwiseFrom(version, V6_1, 1) < 0)
       => (/\ op'.err = "MethodUnsupported"
           /\ invoices' = invoices
           /\ PostsIn(out', "web_app_open_invoice") = {})]_vars

-----------------------------------------------------------------------------
(* Popup.open: validation *)

ParamInvalid ==
    {"ParamInvalid:title", "ParamInvalid:message", "ParamInvalid:buttons",
     "ParamInvalid:id", "ParamInvalid:type", "ParamInvalid:text"}

\* the text of a string argument without the whitespace around it
Trimmed(v) == Str(0, v.core, 0, v.tag)

\* the trimmed message is empty (or there is no message) or longer than 256
MessageRejected(m) == m.ty # "str" \/ m.core = 0 \/ m.core > 256

\* C14: Popup.open on a closed popup fails with ParamInvalid iff the trimmed
\* message is empty, missing or longer than 256 (the title and the buttons
\* being acceptable: here, none given); otherwise the trimmed message is
\* stored. A 256-character message with whitespace around it is accepted, a
\* 257-character one is rejected, and a rejected open leaves the popup closed.
C14_MessageRule ==
    [][(op'.name = "Popup.open" /\ ~popup.isOpened)
       => (/\ MessageRejected(op'.arg) => (op'.err \in ParamInvalid /\ ~popup'.isOpened)
           /\ (op'.aux = Undef /\ op'.buttons = NoButtons)
                => ((op'.err # "") <=> MessageRejected(op'.arg))
           /\ (op'.err = "ParamInvalid:message") => MessageRejected(op'.arg)
           /\ (op'.err = "")
                => (popup'.isOpened /\ popup'.data.params.message = Trimmed(op'.arg))
           /\ (op'.err # "") => (op'.err \in ParamInvalid /\ ~popup'.isOpened))]_vars

\* C14 witness: a 256-character message with whitespace on both sides has
\* just been accepted and stored trimmed
C14_Witness ==
    /\ op.name = "Popup.open"
    /\ op.err = ""
    /\ op.arg = Str(1, 256, 1, "m")
    /\ popup.isOpened
    /\ popup.data.params.message = Str(0, 256, 0, "m")

\* C15: the title is trimmed; a title that is missing or empty once trimmed
\* is omitted from params and does not make open fail; any other title is
\* stored trimmed if its trimmed length is at most 64, and makes open fail
\* with ParamInvalid iff its trimmed length is above 64 (the message and the
\* buttons being acceptable).
C15_TitleRule ==
    [][(op'.name = "Popup.open" /\ ~popup.isOpened)
       => LET title == op'.aux
              omitted == title.ty # "str" \/ title.core = 0
          IN  /\ (op'.err = "ParamInvalid:title") <=> (~omitted /\ title.core > 64)
              /\ (op'.err = "" /\ omitted) => popup'.data.params.title = Undef
              /\ (op'.err = "" /\ ~omitted) => popup'.data.params.title = Trimmed(title)
              /\ (~MessageRejected(op'.arg) /\ op'.buttons = NoButtons)
                    => ((op'.err = "") <=> (omitted \/ title.core <= 64))]_vars

\* the validated form of a button: its id as a string ("" if missing), its
\* type, and its trimmed text if the type requires one
ValidatedButton(b) ==
    [id |-> IF b.id.ty = "str" THEN b.id ELSE EmptyStr,
     type |-> b.type,
     text |-> IF b.type \in {TYPE_DEFAULT, TYPE_DESTRUCTIVE} THEN Trimmed(b.text) ELSE Undef]

-----------------------------------------------------------------------------
(* WebAppPopupButton: validation *)

\* the length of the id coerced to a string
IdLength(id) ==
    CASE id.ty = "str" -> id.pre + id.core + id.post
      [] id.ty = "bool" -> IF id.tag = "true" THEN 4 ELSE 5
      [] OTHER -> 0

IdRejected(c) == IdLength(c.id) > 64
TypeRejected(c) == c.type \notin {TYPE_DEFAULT, TYPE_OK, TYPE_CLOSE, TYPE_CANCEL, TYPE_DESTRUCTIVE}
TextRejected(c) ==
    /\ c.type \in {TYPE_DEFAULT, TYPE_DESTRUCTIVE}
    /\ (c.text.ty # "str" \/ c.text.core = 0 \/ c.text.core > 64)

\* C17: button validation fails with ParamInvalid iff the id as a string is
\* longer than 64, or the type is not one of the five, or the type is default
\* or destructive and the trimmed text is empty or longer than 64; the
\* failure reported is that of the first violated rule in the order id, type,
\* text, and the text rule is not evaluated when the type was not accepted.
C17_ButtonRulesInOrder ==
    op.name = "WebAppPopupButton" =>
        LET c == op.arg
        IN  /\ (op.err # "") <=> (IdRejected(c) \/ TypeRejected(c) \/ TextRejected(c))
            /\ (op.err # "") => op.err \in ParamInvalid
            /\ IdRejected(c) => op.err = "ParamInvalid:id"
            /\ (~IdRejected(c) /\ TypeRejected(c)) => op.err = "ParamInvalid:type"
            /\ (~IdRejected(c) /\ ~TypeRejected(c) /\ TextRejected(c))
                    => op.err = "ParamInvalid:text"

\* C17 witness: a config that breaks the id rule and the type rule has been
\* refused for its id
C17_Witness ==
    /\ op.name = "WebAppPopupButton"
    /\ op.err = "ParamInvalid:id"
    /\ TypeRejected(op.arg)
    /\ op.arg.text = Undef

\* C18: a validated button has a string id of at most 64 characters ("" for
\* a missing id); with type ok, close or cancel it has no text, whatever text
\* was given; with type default or destructive its text is the trimmed text
\* given, of 1..64 characters.
C18_ValidatedButton ==
    (op.name = "WebAppPopupButton" /\ op.err = "") =>
        LET c == op.arg
            b == op.aux
        IN  /\ b.id.ty = "str"
            /\ Length(b.id) <= 64
            /\ c.id.ty \in {"undef", "null"} => b.id = EmptyStr
            /\ b.type = c.type
            /\ b.type \in {TYPE_OK, TYPE_CLOSE, TYPE_CANCEL} => b.text = Undef
            /\ b.type \in {TYPE_DEFAULT, TYPE_DESTRUCTIVE}
                    => (b.text = Trimmed(c.text) /\ Length(b.text) \in 1..64)
            /\ b.type \in {TYPE_DEFAULT, TYPE_OK, TYPE_CLOSE, TYPE_CANCEL, TYPE_DESTRUCTIVE}

\* C18 witness: a button of type ok given a text has been built without it
C18_Witness ==
    /\ op.name = "WebAppPopupButton"
    /\ op.err = ""
    /\ op.arg.type = TYPE_OK
    /\ op.arg.text = Str(1, 64, 1, "x")
    /\ op.arg.id = Undef
    /\ op.aux.text = Undef
    /\ op.aux.id = EmptyStr


-----------------------------------------------------------------------------
(* Button clicks *)

\* the functions called for event `name` in `log`, in the order of the calls
CalledHandlers(log, name) ==
    LET calls == SelectSeq(log, LAMBDA e : e.k = "handler" /\ e.name = name)
    IN  [i \in 1..Len(calls) |-> calls[i].tok]

\* C19: a main_button_pressed event reaches the mainButtonClicked subscribers
\* iff MainButton.isActive is true in the state the event is delivered in:
\* then every subscriber is called, in subscription order, and otherwise no
\* function is called at all.
C19_MainButtonForwardedIffActive ==
    [][op'.name = "main_button_pressed" =>
        IF mainButton.isActive
        THEN CalledHandlers(out', MAIN_BUTTON_CLICKED) = handlers[MAIN_BUTTON_CLICKED]
        ELSE \A i \in 1..Len(out') : out'[i].k # "handler"]_vars

\* a press delivered while the button is inactive, with subscribers present,
\* has called nobody
C19_Witness ==
    /\ op.name = "main_button_pressed"
    /\ ~mainButton.isActive
    /\ Len(handlers[MAIN_BUTTON_CLICKED]) = MaxHandlers
    /\ out = <<>>

\* C20: every back_button_pressed event delivered after construction calls
\* each function subscribed to backButtonClicked at that moment, exactly once,
\* whatever the state of the BackButton.
C20_BackButtonForwardedAlways ==
    [][op'.name = "back_button_pressed" =>
        CalledHandlers(out', BACK_BUTTON_CLICKED) = handlers[BACK_BUTTON_CLICKED]]_vars


-----------------------------------------------------------------------------
(* Dispatch to the subscribed functions *)

\* the button event handled last has been forwarded to the subscribers of `name`
Forwarded(name, last, wasActive, wasCreated) ==
    \/ name = MAIN_BUTTON_CLICKED /\ last.name = "main_button_pressed" /\ wasActive
    \/ name = BACK_BUTTON_CLICKED /\ last.name = "back_button_pressed" /\ wasCreated

\* how often `handler` is called for `name` in `log`
TimesCalled(log, name, handler) ==
    Cardinality({i \in 1..Len(log) :
                    log[i].k = "handler" /\ log[i].name = name /\ log[i].tok = handler})

\* C21: a dispatch calls every function registered when it began exactly
\* once, and no other function, whatever the functions called subscribe or
\* unsubscribe for the same event while it runs.
C21_DispatchOverSnapshot ==
    [][\A name \in {MAIN_BUTTON_CLICKED, BACK_BUTTON_CLICKED} :
        Forwarded(name, op', mainButton.isActive, backButton.isCreated) =>
            \A h \in Handlers :
                TimesCalled(out', name, h) =
                    IF h \in Subscribed(handlers[name]) THEN 1 ELSE 0]_vars

\* the first subscriber has unsubscribed the second during a dispatch, and
\* the second has been called all the same
C21_Witness ==
    /\ op.name = "back_button_pressed"
    /\ op.does.effects[1] = [kind |-> "off", handler |-> 2]
    /\ CalledHandlers(out, BACK_BUTTON_CLICKED) = <<1, 2>>
    /\ handlers[BACK_BUTTON_CLICKED] = <<1>>

\* C22: when a subscribed function throws, the functions registered after it
\* are still called in the same dispatch, the failure is reported and the
\* delivery of the host event ends without an error.
C22_HandlerFailureIsolated ==
    [][\A name \in {MAIN_BUTTON_CLICKED, BACK_BUTTON_CLICKED} :
        (/\ Forwarded(name, op', mainButton.isActive, backButton.isCreated)
         /\ op'.does.throws # {}) =>
            /\ op'.err = ""
            /\ \A h \in Subscribed(handlers[name]) : TimesCalled(out', name, h) = 1
            /\ \A h \in op'.does.throws :
                \E i \in 1..Len(out') : out'[i] = Report(name, h)]_vars

\* the first subscriber has thrown and the second has been called after it
C22_Witness ==
    /\ op.name = "main_button_pressed"
    /\ op.err = ""
    /\ op.does.throws = {1}
    /\ out = <<HandlerCall(MAIN_BUTTON_CLICKED, 1), Report(MAIN_BUTTON_CLICKED, 1),
               HandlerCall(MAIN_BUTTON_CLICKED, 2)>>


-----------------------------------------------------------------------------
(* Viewport *)

\* viewportChanged is emitted in `log`
EmitsViewportChanged(log) == \E i \in 1..Len(log) : log[i].k = "emit" /\ log[i].name = "viewportChanged"

\* C23: once a viewport_changed event carrying a height has been handled,
\* #onWindowResize no longer listens, it is never registered again and no
\* later resize emits viewportChanged; a viewport_changed event without a
\* height changes no state and emits nothing.
C23_HostViewportTakesPrecedence ==
    [][/\ (op'.name = "viewport_changed" /\ op'.data.height.given) => ~window'.resize
       /\ (op'.name = "viewport_changed" /\ ~op'.data.height.given)
            => (out' = <<>> /\ UNCHANGED <<app, window, viewport>>)
       /\ ~window.resize
            => (~window'.resize /\ (op'.name = "resize" => ~EmitsViewportChanged(out')))]_vars

\* the height of the event data is a number other than 0
NonZeroHeight(data) == data.height.given /\ data.height.value # 0

\* C23, amended: the same with "a height" read as a height other than 0; an
\* event whose height is missing or 0 changes no state and emits nothing.
C23_NonZeroHeightTakesPrecedence ==
    [][/\ (op'.name = "viewport_changed" /\ NonZeroHeight(op'.data)) => ~window'.resize
       /\ (op'.name = "viewport_changed" /\ ~NonZeroHeight(op'.data))
            => (out' = <<>> /\ UNCHANGED <<app, window, viewport>>)
       /\ ~window.resize
            => (~window'.resize /\ (op'.name = "resize" => ~EmitsViewportChanged(out')))]_vars

\* after a host-supplied height, the window has been resized to a height it
\* did not have and nothing has been emitted
C23_Witness ==
    /\ op.name = "resize"
    /\ ~window.resize
    /\ window.innerHeight # app.lastWindowHeight
    /\ viewport.height # InitialViewport.height
    /\ out = <<>>

\* C24: while #onWindowResize listens, a resize emits viewportChanged with
\* isStateStable true and records the new height iff the height differs from
\* the one recorded last; a resize to the recorded height emits nothing and
\* changes nothing.
C24_ResizeDebounced ==
    [][(op'.name = "resize" /\ window.resize) =>
        IF window'.innerHeight # app.lastWindowHeight
        THEN /\ out' = <<Emit("viewportChanged", Bool(TRUE))>>
             /\ app'.lastWindowHeight = window'.innerHeight
        ELSE out' = <<>> /\ app' = app]_vars

\* a second resize to the height the first resize brought has emitted nothing
C24_Witness ==
    /\ op.name = "resize"
    /\ window.resize
    /\ op.before = window.innerHeight
    /\ window.innerHeight # InitialWindow.innerHeight
    /\ app.lastWindowHeight = window.innerHeight
    /\ out = <<>>


-----------------------------------------------------------------------------
(* Pending requests and the popups *)

\* the call or event handled last closes the popup or the QR popup
ClosesPopup(last) ==
    last.name \in {"popup_closed", "scan_qr_popup_closed", "closeScanQrPopup",
                   "qr_text_received"}

\* C25: popup_closed, scan_qr_popup_closed, closeScanQrPopup and
\* qr_text_received (whatever the scan callback returns) leave the pending
\* invoices and clipboard requests as they are; an entry leaves its registry
\* only in the step that handles the host response naming its slug or id.
C25_ClosingLeavesRequests ==
    [][/\ ClosesPopup(op') => UNCHANGED <<clipboard, invoices>>
       /\ \A slug \in DOMAIN invoices :
            slug \notin DOMAIN invoices' => (op'.name = "invoice_closed" /\ op'.arg = slug)
       /\ \A id \in DOMAIN clipboard :
            id \notin DOMAIN clipboard'
                => (op'.name = "clipboard_text_received" /\ op'.arg = id)]_vars

\* the scan callback has returned true and closed the QR popup while an
\* invoice and a clipboard request are pending
C25_Witness ==
    /\ op.name = "qr_text_received"
    /\ op.aux = Bool(TRUE)
    /\ HasCallback(op.cb)
    /\ ~qrPopup.isOpened
    /\ invoices # EmptyMap
    /\ clipboard # EmptyMap

\* C26: openInvoice with a valid url whose slug has a pending invoice fails
\* with the invoice-already-opened error, posts nothing and leaves the
\* registry as it is, so the entry keeps the url and callback of the first
\* call.
C26_DuplicateInvoiceRejected ==
    [][(op'.name = "openInvoice" /\ MapHas(invoices, op'.arg)) =>
        /\ op'.err = "InvoiceOpened"
        /\ out' = <<>>
        /\ invoices' = invoices]_vars

\* a second openInvoice for a pending slug, with a callback of its own, has
\* failed and the entry still holds the first callback
C26_Witness ==
    /\ op.name = "openInvoice"
    /\ op.err = "InvoiceOpened"
    /\ HasCallback(op.cb)
    /\ MapHas(invoices, op.arg)
    /\ HasCallback(invoices[op.arg].callback)
    /\ invoices[op.arg].callback.tok # op.cb.tok
    /\ out = <<>>


-----------------------------------------------------------------------------
(* showPopup called inside a popup callback *)

\* C27: when popup_closed runs the stored callback, the popup is already
\* closed and reset, so a showPopup call made by the callback fares as it
\* would on a closed popup: with valid params it succeeds, stores its params
\* and callback and posts web_app_open_popup; popupClosed is emitted after
\* that and leaves the new popup as the call made it.
C27_ShowPopupInsideCallback ==
    [][(op'.name = "popup_closed/showPopup" /\ Truthy(Coalesce(op'.arg, Null))) =>
        /\ out'[1].k = "cb" /\ out'[1].tok = popup.data.callback.tok /\ ~out'[1].live
        /\ op'.err = showPopup(version, ClosedPopup, op'.params, op'.inner, op'.genId).err
        /\ popup' = showPopup(version, ClosedPopup, op'.params, op'.inner, op'.genId).state
        /\ op'.params.message = ValidMessage =>
            /\ op'.err = ""
            /\ popup'.isOpened
            /\ popup'.data.callback = op'.inner
            /\ Len(out') = 3
            /\ out'[2].k = "post" /\ out'[2].name = "web_app_open_popup"
            /\ out'[2].params.message = op'.params.message
            /\ out'[3] = Emit("popupClosed", op'.arg)]_vars

\* a callback has opened the next popup, with a callback of its own, while
\* popup_closed was handled
C27_Witness ==
    /\ op.name = "popup_closed/showPopup"
    /\ op.err = ""
    /\ HasCallback(op.inner)
    /\ popup.isOpened
    /\ popup.data.callback = op.inner
    /\ Len(out) = 3
    /\ out[2].name = "web_app_open_popup"
    /\ out[3].k = "emit"


-----------------------------------------------------------------------------
(* The payload of web_app_open_popup *)

\* the params a showPopup call was given
GivenParams(last) == [title |-> last.aux, message |-> last.arg, buttons |-> last.buttons]

\* C28: a showPopup call that succeeds posts what the same call posts as the
\* first call after construction, up to the generated id of the close button:
\* the payload depends on the arguments alone, not on the calls made before.
C28_PayloadFromArguments ==
    [][(op'.name = "showPopup" /\ op'.err = "") =>
        \E genId \in GenIdFor(GivenParams(op')) :
            out' = showPopup(version, ClosedPopup, GivenParams(op'), op'.cb, genId).out]_vars


-----------------------------------------------------------------------------
(* Closing confirmation *)

\* C29: isClosingConfirmationEnabled equals the need_confirmation posted
\* last in web_app_setup_closing_behavior (false if none was posted), and it
\* is never true on a host below 6.2.
C29_FlagIsWhatWasPosted ==
    /\ app.isClosingConfirmationEnabled = op.posted
    /\ app.isClosingConfirmationEnabled => isSuitableTo(version, V6_2)


-----------------------------------------------------------------------------
(* Construction *)

\* where `entry` stands in `log` (0 if nowhere)
PlaceIn(log, entry) ==
    IF \E i \in 1..Len(log) : log[i] = entry
    THEN CHOOSE i \in 1..Len(log) : log[i] = entry
    ELSE 0

\* the host events whose handlers the constructor registers at its end
HostEvents == {HOST_HANDLERS[i].name : i \in 1..Len(HOST_HANDLERS)}

\* C30: the constructor registers the handlers of theme_changed,
\* viewport_changed, invoice_closed, settings_button_pressed, popup_closed,
\* qr_text_received, scan_qr_popup_closed and clipboard_text_received, each
\* once, before it posts web_app_request_theme, which it posts once and
\* before web_app_request_viewport, posted once and last.
C30_HandlersBeforeRequests ==
    op.name = "new" =>
        /\ Cardinality(HostEvents) = 8
        /\ \A name \in HostEvents :
            /\ Len(handlers[name]) = 1
            /\ Cardinality({i \in 1..Len(out) : out[i] = Registered(name)}) = 1
            /\ PlaceIn(out, Registered(name))
                    < PlaceIn(out, Post("web_app_request_theme", Undef, NoParams))
        /\ Cardinality(PostsIn(out, "web_app_request_theme")) = 1
        /\ Cardinality(PostsIn(out, "web_app_request_viewport")) = 1
        /\ PlaceIn(out, Post("web_app_request_theme", Undef, NoParams)) = Len(out) - 1
        /\ PlaceIn(out, Post("web_app_request_viewport", Undef, NoParams)) = Len(out)

\* a constructor that found a version in the init params and posted the
\* background colour has registered its handlers and posted its two requests
C30_Witness ==
    /\ op.name = "new"
    /\ op.initParams.tgWebAppVersion = V6_4
    /\ version = V6_4
    /\ op.initParams.bgColorUpdated
    /\ handlers["popup_closed"] = <<"onPopupClosed">>
    /\ PostsIn(out, "web_app_request_viewport") = {Len(out)}

-----------------------------------------------------------------------------
(* Inline query *)

\* the query as switchInlineQuery sends it
QueryToSend(query) == Trim(IF Truthy(query) THEN query ELSE EmptyStr)

\* switchInlineQuery was called without chat types (omitted or null) on a
\* host from 6.7 with inline mode enabled and a query that, trimmed, has at
\* most MAX_INLINE_QUERY_LENGTH characters
WithoutChatTypes ==
    /\ op.name = "switchInlineQuery"
    /\ isSuitableTo(version, V6_7)
    /\ op.aux = Bool(TRUE)
    /\ Length(QueryToSend(op.arg)) <= MAX_INLINE_QUERY_LENGTH
    /\ op.chatTypes.ty \in {"undef", "null"}

\* C31: switchInlineQuery called with the chat types omitted or null, on a
\* host from 6.7 with inline mode enabled and a trimmed query of at most 256
\* characters, succeeds and posts web_app_switch_inline_query with the
\* trimmed query and an empty chat_types list.
C31_OmittedChatTypesSucceed ==
    WithoutChatTypes =>
        /\ op.err = ""
        /\ out = <<Post("web_app_switch_inline_query", QueryToSend(op.arg),
                        [chat_types |-> <<>>])>>

====
